---- MODULE Spec2Model ----
(***************************************************************************)
(* CamliDraw: webcam hand gestures -> drawing / panning / zooming /        *)
(* erasing on a canvas.                                                    *)
(*                                                                         *)
(* Numbers of the program (JavaScript numbers) are modelled as exact       *)
(* rationals <<numerator, denominator>> in lowest terms, denominator > 0.   *)
(* A ref or optional field that is null/undefined is the empty sequence.   *)
(***************************************************************************)
EXTENDS Integers, Sequences, FiniteSets, TLC

\* ------------------------------------------------------------------------
\* Exact rational arithmetic (the program's number type)
\* ------------------------------------------------------------------------
Abs(i) == IF i < 0 THEN -i ELSE i

RECURSIVE GCD(_, _)
GCD(a, b) == IF b = 0 THEN a ELSE GCD(b, a % b)

\* n/d in lowest terms, d # 0
R(n, d) ==
  LET g == GCD(Abs(n), Abs(d))
      s == IF d < 0 THEN -1 ELSE 1
  IN  << (s * n) \div g, (s * d) \div g >>

Null == << >>

RAdd(a, b) == R(a[1] * b[2] + b[1] * a[2], a[2] * b[2])
RSub(a, b) == R(a[1] * b[2] - b[1] * a[2], a[2] * b[2])
RMul(a, b) == R(a[1] * b[1], a[2] * b[2])
RDiv(a, b) == R(a[1] * b[2], a[2] * b[1])
RLt(a, b)  == a[1] * b[2] < b[1] * a[2]
RLe(a, b)  == a[1] * b[2] <= b[1] * a[2]
RGt(a, b)  == RLt(b, a)
RAbs(a)    == << Abs(a[1]), a[2] >>
RMax(a, b) == IF RLt(a, b) THEN b ELSE a
RMin(a, b) == IF RLt(b, a) THEN b ELSE a
RInt(i)    == << i, 1 >>

\* JavaScript truthiness of an optional number: neither undefined/null nor 0
Truthy(r) == r # Null /\ r[1] # 0

\* ------------------------------------------------------------------------
\* Model bounds and environment values
\* ------------------------------------------------------------------------
MaxEvents == 6      \* handler invocations explored per behaviour
MaxPts    == 3      \* points per in-progress stroke explored

innerWidth  == 200  \* window.innerWidth
innerHeight == 200  \* window.innerHeight

Point(x, y) == [x |-> x, y |-> y]

\* ------------------------------------------------------------------------
\* App.tsx : program constants
\* ------------------------------------------------------------------------
SMOOTHING_WINDOW    == 3
MAX_PATH_POINTS     == 1000
MIN_DISTANCE_THRESHOLD == R(1, 100)
PINCH_CONFIDENCE    == R(6, 10)
PALM_CONFIDENCE     == R(7, 10)
ZOOM_CONFIDENCE     == R(7, 10)
FIST_CONFIDENCE     == R(8, 10)
MIN_SCALE           == R(1, 10)
MAX_SCALE           == R(5, 1)
ERASE_RADIUS        == R(50, 1)

GestureTypes == {"pinch", "palm", "zoom", "fist", "none"}

Gesture(t, c, p, d) == [type |-> t, confidence |-> c, position |-> p, distance |-> d]

\* ------------------------------------------------------------------------
\* State
\* ------------------------------------------------------------------------
VARIABLES
  drawingState,          \* App: React state, every queued updater applied
  closureState,          \* App: the drawingState the handlers of the last render captured
  lastZoomDistanceRef,   \* App: number | null
  panStartRef,           \* App: Point | null   (<<p>> or Null)
  lastGestureTypeRef,    \* App: string | null  ("null" for null)
  lastDrawPositionRef,   \* App: Point | null
  positionHistoryRef,    \* App: Point[]
  event,                 \* history: the handler that ran last and its argument
  pre,                   \* history: the state and refs that handler found
  session,               \* history: points appended since isDrawing last became true
  emitted,               \* history: the smoothed positions behind the points of session
  nEvents                \* history: number of handler invocations so far

appVars == << drawingState, closureState, lastZoomDistanceRef, panStartRef,
              lastGestureTypeRef, lastDrawPositionRef, positionHistoryRef,
              event, pre, session, emitted, nEvents >>

\* the fields of drawingState a handler reads from its closure
Captured(s) == [isDrawing |-> s.isDrawing, isPanning |-> s.isPanning,
                isZooming |-> s.isZooming, isErasing |-> s.isErasing,
                scale |-> s.scale, offset |-> s.offset]

InitialDrawingState ==
  [isDrawing |-> FALSE, isPanning |-> FALSE, isZooming |-> FALSE, isErasing |-> FALSE,
   scale |-> RInt(1), offset |-> Point(RInt(0), RInt(0)),
   currentPath |-> << >>, paths |-> << >>]

\* what a handler found when it started
Before(state, closure, lastZoomDistance, panStart, lastGestureType) ==
  [state |-> state, closure |-> closure, lastZoomDistance |-> lastZoomDistance,
   panStart |-> panStart, lastGestureType |-> lastGestureType]

NoEvent == [kind |-> "init", gesture |-> Gesture("none", RInt(0), Point(RInt(0), RInt(0)), Null),
            position |-> Null]

AppInit ==
  /\ drawingState = InitialDrawingState
  /\ closureState = Captured(InitialDrawingState)
  /\ lastZoomDistanceRef = Null
  /\ panStartRef = Null
  /\ lastGestureTypeRef = "null"
  /\ lastDrawPositionRef = Null
  /\ positionHistoryRef = << >>
  /\ event = NoEvent
  /\ pre = Before(InitialDrawingState, Captured(InitialDrawingState), Null, Null, "null")
  /\ session = << >>
  /\ emitted = << >>
  /\ nEvents = 0

\* ------------------------------------------------------------------------
\* App.tsx : pure helpers
\* ------------------------------------------------------------------------
\* screenToCanvas, with the offset and scale of the closure c
screenToCanvas(c, screenPoint) ==
  Point(RDiv(RSub(RMul(screenPoint.x, RInt(innerWidth)), c.offset.x), c.scale),
        RDiv(RSub(RMul(screenPoint.y, RInt(innerHeight)), c.offset.y), c.scale))

\* { x: 1 - p.x, y: p.y }
Flip(p) == Point(RSub(RInt(1), p.x), p.y)

\* squared Euclidean distance; Math.sqrt(d2) < r is decided as d2 < r*r (r >= 0)
Dist2(a, b) ==
  RAdd(RMul(RSub(a.x, b.x), RSub(a.x, b.x)), RMul(RSub(a.y, b.y), RSub(a.y, b.y)))

\* mutant of ClampScale: the upper clamp is missing
ClampScale_NoUpper(s) == RMax(MIN_SCALE, s)

\* Math.max(0.1, Math.min(5, s))
ClampScale(s) == RMax(MIN_SCALE, RMin(MAX_SCALE, s))

\* path.some(point => distance(point, canvasPoint) < eraseRadius)
PathHit(path, canvasPoint, eraseRadius) ==
  \E i \in 1..Len(path) : RLt(Dist2(path[i], canvasPoint), RMul(eraseRadius, eraseRadius))

\* prev.paths.filter(path => !path.some(...))
ErasePaths_DropsPoints(paths, canvasPoint, eraseRadius) ==
  [i \in 1..Len(paths) |->
     SelectSeq(paths[i], LAMBDA point : ~PathHit(<< point >>, canvasPoint, eraseRadius))]

ErasePaths(paths, canvasPoint, eraseRadius) ==
  SelectSeq(paths, LAMBDA path : ~PathHit(path, canvasPoint, eraseRadius))

\* the updater of the drawing exit: commit a stroke of 2 or more points
FinishPath(prev) ==
  IF Len(prev.currentPath) > 1
    THEN [prev EXCEPT !.isDrawing = FALSE,
                      !.paths = Append(prev.paths, prev.currentPath),
                      !.currentPath = << >>]
    ELSE [prev EXCEPT !.isDrawing = FALSE, !.currentPath = << >>]

\* ------------------------------------------------------------------------
\* App.tsx : handleGestureDetected.  Each branch is the updater it queues,
\* applied to the latest state prev; its tests read the closure c.
\* ------------------------------------------------------------------------
PinchAccepted(gesture) ==
  gesture.type = "pinch" /\ RGt(gesture.confidence, PINCH_CONFIDENCE)

DrawingBranch(prev, c, gesture) ==
  IF PinchAccepted(gesture)
    THEN IF ~c.isDrawing
           THEN [prev EXCEPT !.isDrawing = TRUE, !.currentPath = << >>]
           ELSE prev
    ELSE IF c.isDrawing /\ gesture.type # "pinch"
           THEN FinishPath(prev)
           ELSE prev

PalmAccepted(gesture) ==
  gesture.type = "palm" /\ RGt(gesture.confidence, PALM_CONFIDENCE)

\* flippedScreenPoint
FlippedScreenPoint(gesture) ==
  Point(RMul(Flip(gesture.position).x, RInt(innerWidth)),
        RMul(Flip(gesture.position).y, RInt(innerHeight)))

PanningBranch(prev, c, gesture, panStart) ==
  IF PalmAccepted(gesture)
    THEN IF ~c.isPanning
           THEN [prev EXCEPT !.isPanning = TRUE]
           ELSE IF panStart # Null
                  THEN [prev EXCEPT
                          !.offset = Point(RAdd(prev.offset.x,
                                                RSub(FlippedScreenPoint(gesture).x, panStart[1].x)),
                                           RAdd(prev.offset.y,
                                                RSub(FlippedScreenPoint(gesture).y, panStart[1].y)))]
                  ELSE prev
    ELSE IF c.isPanning /\ gesture.type # "palm"
           THEN [prev EXCEPT !.isPanning = FALSE]
           ELSE prev

PanStartAfter(c, gesture, panStart) ==
  IF PalmAccepted(gesture)
    THEN IF ~c.isPanning \/ panStart # Null THEN << FlippedScreenPoint(gesture) >> ELSE panStart
    ELSE IF c.isPanning /\ gesture.type # "palm" THEN Null ELSE panStart

ZoomAccepted(gesture) ==
  gesture.type = "zoom" /\ Truthy(gesture.distance) /\ RGt(gesture.confidence, ZOOM_CONFIDENCE)

\* newScale
NewScale(c, gesture, lastZoomDistance) ==
  ClampScale(RMul(c.scale, RDiv(gesture.distance, lastZoomDistance)))

ZoomBranch(prev, c, gesture, lastZoomDistance) ==
  IF ZoomAccepted(gesture)
    THEN IF ~c.isZooming
           THEN [prev EXCEPT !.isZooming = TRUE]
           ELSE IF Truthy(lastZoomDistance)
                  THEN [prev EXCEPT !.scale = NewScale(c, gesture, lastZoomDistance)]
                  ELSE prev
    ELSE IF c.isZooming /\ gesture.type # "zoom"
           THEN [prev EXCEPT !.isZooming = FALSE]
           ELSE prev

LastZoomDistanceAfter(c, gesture, lastZoomDistance) ==
  IF ZoomAccepted(gesture)
    THEN IF ~c.isZooming \/ Truthy(lastZoomDistance) THEN gesture.distance ELSE lastZoomDistance
    ELSE IF c.isZooming /\ gesture.type # "zoom" THEN Null ELSE lastZoomDistance

FistAccepted(gesture) ==
  gesture.type = "fist" /\ RGt(gesture.confidence, FIST_CONFIDENCE)

\* the erase centre and radius the handler computes from its closure
EraseCentre(c, gesture) == screenToCanvas(c, Flip(gesture.position))
EraseRadius(c) == RDiv(ERASE_RADIUS, c.scale)

EraseBranch(prev, c, gesture) ==
  IF FistAccepted(gesture)
    THEN [prev EXCEPT !.isErasing = IF ~c.isErasing THEN TRUE ELSE prev.isErasing,
                      !.paths = ErasePaths(prev.paths, EraseCentre(c, gesture), EraseRadius(c))]
    ELSE IF c.isErasing /\ gesture.type # "fist"
           THEN [prev EXCEPT !.isErasing = FALSE]
           ELSE prev

\* the four branches in program order
Reduce(prev, c, gesture, panStart, lastZoomDistance) ==
  EraseBranch(
    ZoomBranch(
      PanningBranch(
        DrawingBranch(prev, c, gesture),
        c, gesture, panStart),
      c, gesture, lastZoomDistance),
    c, gesture)

handleGestureDetected(gesture) ==
  /\ nEvents < MaxEvents
  /\ drawingState' = Reduce(drawingState, closureState, gesture, panStartRef, lastZoomDistanceRef)
  /\ panStartRef' = PanStartAfter(closureState, gesture, panStartRef)
  /\ lastZoomDistanceRef' = LastZoomDistanceAfter(closureState, gesture, lastZoomDistanceRef)
  /\ lastGestureTypeRef' = gesture.type
  /\ IF PinchAccepted(gesture) /\ ~closureState.isDrawing
       THEN positionHistoryRef' = << >> /\ lastDrawPositionRef' = Null
       ELSE UNCHANGED << positionHistoryRef, lastDrawPositionRef >>
  /\ event' = [kind |-> "gesture", gesture |-> gesture, position |-> Null]
  /\ pre' = Before(drawingState, closureState, lastZoomDistanceRef, panStartRef,
                   lastGestureTypeRef)
  /\ session' = IF ~drawingState.isDrawing /\ drawingState'.isDrawing THEN << >> ELSE session
  /\ emitted' = IF ~drawingState.isDrawing /\ drawingState'.isDrawing THEN << >> ELSE emitted
  /\ nEvents' = nEvents + 1
  /\ UNCHANGED closureState

\* ------------------------------------------------------------------------
\* App.tsx : handleHandPositionUpdate
\* ------------------------------------------------------------------------
RECURSIVE SumX(_)
SumX(ps) == IF ps = << >> THEN RInt(0) ELSE RAdd(ps[1].x, SumX(Tail(ps)))
RECURSIVE SumY(_)
SumY(ps) == IF ps = << >> THEN RInt(0) ELSE RAdd(ps[1].y, SumY(Tail(ps)))

\* push, then shift when longer than SMOOTHING_WINDOW
PushHistory(history, position) ==
  LET h == Append(history, position)
  IN  IF Len(h) > SMOOTHING_WINDOW THEN Tail(h) ELSE h

\* smoothedPosition: the mean of the history
Smoothed(history) ==
  Point(RDiv(SumX(history), RInt(Len(history))), RDiv(SumY(history), RInt(Len(history))))

\* the early return of the minimum-distance check
TooClose(smoothedPosition, lastDrawPosition) ==
  /\ lastDrawPosition # Null
  /\ RLt(Dist2(smoothedPosition, lastDrawPosition[1]),
         RMul(MIN_DISTANCE_THRESHOLD, MIN_DISTANCE_THRESHOLD))

\* an updater without the cap on the path length
Appends_NoCap(prev, canvasPoint) ==
  \/ Len(prev.currentPath) = 0
  \/ prev.currentPath[Len(prev.currentPath)] # canvasPoint

\* whether the updater of handleHandPositionUpdate appends canvasPoint to prev
Appends(prev, canvasPoint) ==
  \/ Len(prev.currentPath) = 0
  \/ /\ prev.currentPath[Len(prev.currentPath)] # canvasPoint
     /\ Len(prev.currentPath) < MAX_PATH_POINTS

\* the updater of handleHandPositionUpdate
AddPoint(prev, canvasPoint) ==
  IF Len(prev.currentPath) = 0
    THEN [prev EXCEPT !.isDrawing = TRUE, !.currentPath = << canvasPoint >>]
    ELSE IF Appends(prev, canvasPoint)
           THEN [prev EXCEPT !.isDrawing = TRUE,
                             !.currentPath = Append(prev.currentPath, canvasPoint)]
           ELSE prev

\* position: <<p>> or Null
handleHandPositionUpdate(position) ==
  /\ nEvents < MaxEvents
  /\ IF lastGestureTypeRef = "pinch" /\ position # Null
       THEN LET history     == PushHistory(positionHistoryRef, position[1])
                smoothed    == Smoothed(history)
                canvasPoint == screenToCanvas(closureState, Flip(smoothed))
            IN  /\ positionHistoryRef' = history
                /\ IF TooClose(smoothed, lastDrawPositionRef)
                     THEN UNCHANGED << drawingState, lastDrawPositionRef, session, emitted >>
                     ELSE /\ \/ Len(drawingState.currentPath) < MaxPts
                             \/ Len(drawingState.currentPath) > MAX_PATH_POINTS - MaxPts
                          /\ drawingState' = AddPoint(drawingState, canvasPoint)
                          /\ lastDrawPositionRef' =
                               IF Appends(drawingState, canvasPoint)
                                 THEN << smoothed >> ELSE lastDrawPositionRef
                          /\ session' =
                               IF Appends(drawingState, canvasPoint)
                                 THEN Append(IF drawingState.isDrawing THEN session ELSE << >>,
                                             canvasPoint)
                                 ELSE session
                          /\ emitted' =
                               IF Appends(drawingState, canvasPoint)
                                 THEN Append(IF drawingState.isDrawing THEN emitted ELSE << >>,
                                             smoothed)
                                 ELSE emitted
       ELSE /\ positionHistoryRef' = << >>
            /\ lastDrawPositionRef' = Null
            /\ UNCHANGED << drawingState, session, emitted >>
  /\ event' = [kind |-> "hand", gesture |-> NoEvent.gesture, position |-> position]
  /\ pre' = Before(drawingState, closureState, lastZoomDistanceRef, panStartRef,
                   lastGestureTypeRef)
  /\ nEvents' = nEvents + 1
  /\ UNCHANGED << closureState, lastZoomDistanceRef, panStartRef, lastGestureTypeRef >>

\* ------------------------------------------------------------------------
\* App.tsx : the two commands.  A click is a discrete event: React 18 renders
\* its update synchronously, so the closure sees the command's own update at
\* once (updates queued by timers stay pending until Render).
\* ------------------------------------------------------------------------
\* a clear that forgets the stroke in progress
ClearCanvas_KeepsCurrent(prev) == [prev EXCEPT !.paths = << >>]

ClearCanvas(prev) == [prev EXCEPT !.paths = << >>, !.currentPath = << >>]

\* a reset that forgets the offset
ResetView_KeepsOffset(prev) == [prev EXCEPT !.scale = RInt(1)]

ResetView(prev) == [prev EXCEPT !.scale = RInt(1), !.offset = Point(RInt(0), RInt(0))]

handleClearCanvas ==
  /\ nEvents < MaxEvents
  /\ drawingState' = ClearCanvas(drawingState)
  /\ event' = [kind |-> "clear", gesture |-> NoEvent.gesture, position |-> Null]
  /\ pre' = Before(drawingState, closureState, lastZoomDistanceRef, panStartRef,
                   lastGestureTypeRef)
  /\ nEvents' = nEvents + 1
  /\ UNCHANGED << closureState, lastZoomDistanceRef, panStartRef, lastGestureTypeRef,
                  lastDrawPositionRef, positionHistoryRef, session, emitted >>

handleResetView ==
  /\ nEvents < MaxEvents
  /\ drawingState' = ResetView(drawingState)
  /\ closureState' = ResetView(closureState)
  /\ event' = [kind |-> "reset", gesture |-> NoEvent.gesture, position |-> Null]
  /\ pre' = Before(drawingState, closureState, lastZoomDistanceRef, panStartRef,
                   lastGestureTypeRef)
  /\ nEvents' = nEvents + 1
  /\ UNCHANGED << lastZoomDistanceRef, panStartRef, lastGestureTypeRef,
                  lastDrawPositionRef, positionHistoryRef, session, emitted >>

\* React re-renders App: the handlers are re-created over the latest state
Render ==
  /\ closureState # Captured(drawingState)
  /\ closureState' = Captured(drawingState)
  /\ UNCHANGED << drawingState, lastZoomDistanceRef, panStartRef, lastGestureTypeRef,
                  lastDrawPositionRef, positionHistoryRef, event, pre, session, emitted,
                  nEvents >>

\* ------------------------------------------------------------------------
\* Inputs explored
\* ------------------------------------------------------------------------
P0 == Point(RInt(0), RInt(0))
P1 == Point(R(1, 4), R(1, 4))
Positions == {P0, P1}

D1 == R(1, 10)
D2 == R(2, 5)

Gestures ==
       {Gesture("pinch", c, P0, Null) : c \in {R(6, 10), R(7, 10)}}
  \cup {Gesture("palm", R(7, 10), P0, Null)}
  \cup {Gesture("palm", R(8, 10), p, Null) : p \in Positions}
  \cup {Gesture("zoom", R(7, 10), P0, D1), Gesture("zoom", R(8, 10), P0, Null)}
  \cup {Gesture("zoom", R(8, 10), P0, d) : d \in {D1, D2}}
  \cup {Gesture("fist", R(8, 10), P0, Null)}
  \cup {Gesture("fist", R(9, 10), p, Null) : p \in Positions}
  \cup {Gesture("none", RInt(0), P0, Null)}

HandPositions == {Null} \cup {<< p >> : p \in Positions}

DeliverGesture == \E gesture \in Gestures : handleGestureDetected(gesture)
DeliverHandPosition == \E position \in HandPositions : handleHandPositionUpdate(position)

\* ------------------------------------------------------------------------
\* Gesture classifiers.  landmarks: a sequence of points, landmark i of the
\* program at index i + 1.
\* ------------------------------------------------------------------------
RECURSIVE ISqrtBetween(_, _, _)
ISqrtBetween(n, lo, hi) ==
  IF lo >= hi THEN lo
  ELSE LET mid == (lo + hi + 1) \div 2
       IN  IF mid * mid <= n THEN ISqrtBetween(n, mid, hi) ELSE ISqrtBetween(n, lo, mid - 1)

ISqrt(n) == ISqrtBetween(n, 0, n)

\* Math.sqrt, exact on the squares of rationals (the inputs explored give no others)
RSqrt(q) == R(ISqrt(q[1]), ISqrt(q[2]))

LANDMARK_COUNT == 21

Landmark(landmarks, i) == landmarks[i + 1]

calculateDistance(point1, point2) == RSqrt(Dist2(point1, point2))

fingerTips == << 4, 8, 12, 16, 20 >>
fingerPips == << 3, 6, 10, 14, 18 >>
fingerMcps == << 2, 5, 9, 13, 17 >>

getFingerTip(landmarks, finger) == Landmark(landmarks, fingerTips[finger + 1])
getFingerPip(landmarks, finger) == Landmark(landmarks, fingerPips[finger + 1])
getFingerMcp(landmarks, finger) == Landmark(landmarks, fingerMcps[finger + 1])

EXTENSION_MARGIN == R(2, 100)

isFingerExtended(landmarks, finger) ==
  LET tip == getFingerTip(landmarks, finger)
      pip == getFingerPip(landmarks, finger)
      mcp == getFingerMcp(landmarks, finger)
  IN  IF finger = 0
        THEN RGt(RAbs(RSub(tip.x, mcp.x)), RAdd(RAbs(RSub(pip.x, mcp.x)), EXTENSION_MARGIN))
        ELSE RGt(RSub(mcp.y, tip.y), RAdd(RSub(mcp.y, pip.y), EXTENSION_MARGIN))

getExtendedFingerCount(landmarks) ==
  Cardinality({finger \in 0..4 : isFingerExtended(landmarks, finger)})

NoneGesture == Gesture("none", RInt(0), Point(RInt(0), RInt(0)), Null)

Midpoint(a, b) == Point(RDiv(RAdd(a.x, b.x), RInt(2)), RDiv(RAdd(a.y, b.y), RInt(2)))

PointOf(landmark) == Point(landmark.x, landmark.y)

\* the thumb-and-middle rule shared by the classifiers
ZoomPose(landmarks) ==
  /\ isFingerExtended(landmarks, 0)
  /\ isFingerExtended(landmarks, 2)
  /\ ~isFingerExtended(landmarks, 1)
  /\ ~isFingerExtended(landmarks, 3)
  /\ ~isFingerExtended(landmarks, 4)

\* Math.max(floor, 1 - distance * 15)
PinchConfidence(floor, distance) == RMax(floor, RSub(RInt(1), RMul(distance, RInt(15))))

\* utils/gestureDetection.ts : the pinch rule
UtilPinchRule(landmarks) ==
  /\ RLt(Dist2(getFingerTip(landmarks, 0), getFingerTip(landmarks, 1)),
         RMul(R(4, 100), R(4, 100)))
  /\ getExtendedFingerCount(landmarks) <= 1

\* utils/gestureDetection.ts : detectGesture
detectGesture(landmarks) ==
  IF landmarks = Null \/ Len(landmarks) # LANDMARK_COUNT THEN NoneGesture
  ELSE
    LET thumbTip        == getFingerTip(landmarks, 0)
        indexTip        == getFingerTip(landmarks, 1)
        middleTip       == getFingerTip(landmarks, 2)
        extendedFingers == getExtendedFingerCount(landmarks)
    IN  IF UtilPinchRule(landmarks)
          THEN Gesture("pinch", PinchConfidence(R(4, 10), calculateDistance(thumbTip, indexTip)),
                       Midpoint(thumbTip, indexTip), Null)
        ELSE IF ZoomPose(landmarks)
          THEN Gesture("zoom", R(8, 10), Midpoint(thumbTip, middleTip),
                       calculateDistance(thumbTip, middleTip))
        ELSE IF extendedFingers = 0
          THEN Gesture("fist", R(9, 10), PointOf(Landmark(landmarks, 9)), Null)
        ELSE IF extendedFingers >= 4
          THEN Gesture("palm", R(8, 10), PointOf(Landmark(landmarks, 9)), Null)
        ELSE IF extendedFingers = 1 /\ isFingerExtended(landmarks, 1)
          THEN Gesture("pinch", R(4, 10), PointOf(indexTip), Null)
        ELSE NoneGesture

\* a pinch rule that ignores the thumb-index distance
ViewPinchRule_NoGap(landmarks) == getExtendedFingerCount(landmarks) <= 1

\* CameraView : the pinch rule, of detectGesture and of hands.onResults alike
ViewPinchRule(landmarks) ==
  /\ RLt(Dist2(getFingerTip(landmarks, 0), getFingerTip(landmarks, 1)),
         RMul(R(6, 100), R(6, 100)))
  /\ getExtendedFingerCount(landmarks) <= 1

\* CameraView : detectGesture, the classifier the gesture timer runs
ViewDetectGesture(landmarks) ==
  IF landmarks = Null \/ Len(landmarks) # LANDMARK_COUNT THEN NoneGesture
  ELSE
    LET thumbTip  == getFingerTip(landmarks, 0)
        indexTip  == getFingerTip(landmarks, 1)
        middleTip == getFingerTip(landmarks, 2)
        extended  == getExtendedFingerCount(landmarks)
    IN  IF ViewPinchRule(landmarks)
          THEN Gesture("pinch", PinchConfidence(R(5, 10), calculateDistance(thumbTip, indexTip)),
                       Midpoint(thumbTip, indexTip), Null)
        ELSE IF ZoomPose(landmarks)
          THEN Gesture("zoom", R(8, 10), Midpoint(thumbTip, middleTip),
                       calculateDistance(thumbTip, middleTip))
        ELSE IF extended = 0
          THEN Gesture("fist", R(9, 10), PointOf(Landmark(landmarks, 9)), Null)
        ELSE IF extended >= 4
          THEN Gesture("palm", R(8, 10), PointOf(Landmark(landmarks, 0)), Null)
        ELSE IF extended = 1 /\ isFingerExtended(landmarks, 1)
          THEN Gesture("pinch", R(7, 10), PointOf(indexTip), Null)
        ELSE NoneGesture

\* ------------------------------------------------------------------------
\* utils/tensorflowGestureDetection.ts : TensorFlowGestureDetector
\* ------------------------------------------------------------------------
\* thumbIndexDistance < 0.05 && extendedFingers <= 1
TensorFlowPinchRule(landmarks) ==
  /\ RLt(Dist2(Landmark(landmarks, 4), Landmark(landmarks, 8)), RMul(R(5, 100), R(5, 100)))
  /\ getExtendedFingerCount(landmarks) <= 1

\* Math.max(0.6, 1 - thumbIndexDistance * 20)
TensorFlowPinchConfidence(distance) == RMax(R(6, 10), RSub(RInt(1), RMul(distance, RInt(20))))

\* the pinch result of analyzeHandGesture
TensorFlowPinch(landmarks) ==
  Gesture("pinch",
          TensorFlowPinchConfidence(calculateDistance(Landmark(landmarks, 4), Landmark(landmarks, 8))),
          Midpoint(Landmark(landmarks, 4), Landmark(landmarks, 8)), Null)

\* the rules of analyzeHandGesture after the pinch rule, in program order
TensorFlowLaterRules(landmarks) ==
  LET thumbTip        == Landmark(landmarks, 4)
      indexTip        == Landmark(landmarks, 8)
      middleTip       == Landmark(landmarks, 12)
      extendedFingers == getExtendedFingerCount(landmarks)
  IN  IF ZoomPose(landmarks)
        THEN Gesture("zoom", R(8, 10), Midpoint(thumbTip, middleTip),
                     calculateDistance(thumbTip, middleTip))
      ELSE IF extendedFingers = 0
        THEN Gesture("fist", R(9, 10), PointOf(Landmark(landmarks, 9)), Null)
      ELSE IF extendedFingers >= 4
        THEN Gesture("palm", R(8, 10), PointOf(Landmark(landmarks, 9)), Null)
      ELSE IF extendedFingers = 1 /\ isFingerExtended(landmarks, 1)
        THEN Gesture("pinch", R(7, 10), PointOf(indexTip), Null)
      ELSE NoneGesture

\* a classifier that tests the fist rule before the pinch rule
analyzeHandGesture_FistFirst(landmarks) ==
  IF Len(landmarks) < LANDMARK_COUNT THEN NoneGesture
  ELSE IF getExtendedFingerCount(landmarks) = 0
    THEN Gesture("fist", R(9, 10), PointOf(Landmark(landmarks, 9)), Null)
  ELSE IF TensorFlowPinchRule(landmarks) THEN TensorFlowPinch(landmarks)
  ELSE TensorFlowLaterRules(landmarks)

\* analyzeHandGesture ; the length test lets every sequence of 21 or more through
analyzeHandGesture(landmarks) ==
  IF Len(landmarks) < LANDMARK_COUNT THEN NoneGesture
  ELSE IF TensorFlowPinchRule(landmarks) THEN TensorFlowPinch(landmarks)
  ELSE TensorFlowLaterRules(landmarks)

\* ------------------------------------------------------------------------
\* Hands explored: a template hand whose fingers are posed one by one.
\* Coordinates are hundredths of the frame.
\* ------------------------------------------------------------------------
MaxPinchGap == 6     \* widest thumb-to-index gap explored for a curled thumb, in hundredths
MaxShift    == 1     \* hand translations explored, in tenths of the frame

C(v) == R(v, 100)

\* thumb: -1 or -2 for the two extended poses, d >= 0 for a curled thumb whose
\* tip is d hundredths from the index tip
HandPoses ==
  [thumb : {-2, -1} \cup {0, 2, 3, 5} \cup {MaxPinchGap}, index : BOOLEAN, middle : BOOLEAN,
   ring : BOOLEAN, pinky : BOOLEAN, shift : 0..MaxShift]

MakeHand(pose) ==
  LET dx     == 10 * pose.shift
      P(x, y) == Point(C(x + dx), C(y))
      indexY == IF pose.index THEN 35 ELSE 55
      thumbTip == IF pose.thumb = -1 THEN P(30, 48)
                  ELSE IF pose.thumb = -2 THEN P(20, 49)
                  ELSE P(45 - pose.thumb, indexY)
  IN  << P(50, 90),                                                      \* 0 wrist
         P(44, 78), P(40, 70), P(36, 65), thumbTip,                      \* 1-4 thumb
         P(45, 60), P(45, 50), P(45, 45), P(45, indexY),                 \* 5-8 index
         P(50, 60), P(50, 50), P(50, 45), P(50, IF pose.middle THEN 33 ELSE 55),
         P(55, 60), P(55, 50), P(55, 45), P(55, IF pose.ring THEN 35 ELSE 55),
         P(60, 62), P(60, 54), P(60, 50), P(60, IF pose.pinky THEN 40 ELSE 58) >>

Hands == {MakeHand(pose) : pose \in HandPoses}

Pose(thumb, index, middle, ring, pinky, shift) ==
  [thumb |-> thumb, index |-> index, middle |-> middle, ring |-> ring, pinky |-> pinky,
   shift |-> shift]

\* the poses the landmark source delivers to CameraView in the timer's specification:
\* pinches of four gaps, a fist, two zooms, a palm, a point and a thumb alone
ViewPoses ==
  UNION {{Pose(0, FALSE, FALSE, FALSE, FALSE, s), Pose(2, FALSE, FALSE, FALSE, FALSE, s),
          Pose(3, FALSE, FALSE, FALSE, FALSE, s), Pose(5, FALSE, FALSE, FALSE, FALSE, s),
          Pose(MaxPinchGap, FALSE, FALSE, FALSE, FALSE, s),
          Pose(-1, FALSE, TRUE, FALSE, FALSE, s), Pose(-2, FALSE, TRUE, FALSE, FALSE, s),
          Pose(-1, TRUE, TRUE, TRUE, TRUE, s),
          Pose(MaxPinchGap, TRUE, FALSE, FALSE, FALSE, s),
          Pose(-1, FALSE, FALSE, FALSE, FALSE, s)} : s \in 0..MaxShift}

ViewHands == {MakeHand(pose) : pose \in ViewPoses}

\* ------------------------------------------------------------------------
\* The classifiers as pure functions: Init draws a hand, Classify applies them
\* ------------------------------------------------------------------------
VARIABLES
  landmarks,     \* the input hand
  classified,    \* whether the classifiers have run
  gesture,       \* result of detectGesture (utils/gestureDetection.ts)
  viewGesture,   \* result of CameraView's detectGesture
  tfGesture      \* result of TensorFlowGestureDetector.analyzeHandGesture

classifierVars == << landmarks, classified, gesture, viewGesture, tfGesture >>

\* landmark sequences of the wrong length: a hand cut short, and a hand with
\* one landmark too many
ShortHands == {SubSeq(h, 1, n) : h \in ViewHands, n \in {0, LANDMARK_COUNT - 1}}
LongHands == {Append(h, h[1]) : h \in ViewHands}

ClassifierInit ==
  /\ landmarks \in Hands \cup ShortHands \cup LongHands
  /\ classified = FALSE
  /\ gesture = NoneGesture
  /\ viewGesture = NoneGesture
  /\ tfGesture = NoneGesture

Classify ==
  /\ ~classified
  /\ classified' = TRUE
  /\ gesture' = detectGesture(landmarks)
  /\ viewGesture' = ViewDetectGesture(landmarks)
  /\ tfGesture' = analyzeHandGesture(landmarks)
  /\ UNCHANGED landmarks

\* ------------------------------------------------------------------------
\* CameraView : the effect that owns the landmark callback and the gesture timer
\* ------------------------------------------------------------------------
MaxTicks == 3        \* timer ticks explored per behaviour

VARIABLES
  running,              \* the effect's running flag
  latestLandmarksRef,   \* landmarks of the last frame with a hand, or null
  lastGesture,          \* the gesture last propagated by the timer
  handPosition,         \* history: the argument of the last onHandPositionUpdate call
  tick,                 \* history: what the last timer tick saw and did
  nTicks,               \* history: number of timer ticks so far
  lastFrame,            \* history: how the last camera frame ended
  sourceResults         \* history: the results the landmark source delivered last

viewVars == << running, latestLandmarksRef, lastGesture, handPosition, tick, nTicks,
               lastFrame, sourceResults >>

NoTick == [ran |-> FALSE, landmarks |-> Null, last |-> NoneGesture,
           called |-> 0, passed |-> NoneGesture]

ViewInit ==
  /\ running = TRUE
  /\ latestLandmarksRef = Null
  /\ lastGesture = NoneGesture
  /\ handPosition = Null
  /\ tick = NoTick
  /\ nTicks = 0
  /\ lastFrame = "none"
  /\ sourceResults = Null

\* the position hands.onResults passes to onHandPositionUpdate for one hand
PinchPosition(hand) ==
  IF ViewPinchRule(hand)
    THEN << Midpoint(getFingerTip(hand, 0), getFingerTip(hand, 1)) >>
    ELSE Null

\* hands.onResults ; results: <<hand>> or Null (no hand in the frame)
onResults(results) ==
  /\ running
  /\ IF results # Null
       THEN /\ latestLandmarksRef' = results[1]
            /\ handPosition' = PinchPosition(results[1])
       ELSE /\ latestLandmarksRef' = Null
            /\ handPosition' = Null
  /\ lastFrame' = "results"
  /\ sourceResults' = results
  /\ UNCHANGED << running, lastGesture, tick, nTicks >>

\* Camera onFrame when hands.send rejects: the catch block is empty and
\* onResults is not called for the frame
sendFails ==
  /\ lastFrame' = "failed"
  /\ UNCHANGED << running, latestLandmarksRef, lastGesture, handPosition, tick, nTicks,
                  sourceResults >>

\* the gesture the timer classifies on a tick
TickGesture(latest) ==
  IF latest # Null THEN ViewDetectGesture(latest) ELSE NoneGesture

\* the test that decides whether the tick propagates the new gesture
GestureChanged(new, last) ==
  \/ new.type # last.type
  \/ RGt(RAbs(RSub(new.confidence, last.confidence)), R(1, 10))

\* the gesture a tick passes to onGestureDetected
TickPasses(new, last) == IF GestureChanged(new, last) THEN new ELSE last

\* a timer that stays silent on an unchanged gesture
TickCalls_OnlyOnChange(new, last) == IF GestureChanged(new, last) THEN 1 ELSE 0

\* the number of onGestureDetected calls a tick makes
TickCalls(new, last) == 1

\* setInterval callback
gestureInterval ==
  /\ running
  /\ nTicks < MaxTicks
  /\ LET new == TickGesture(latestLandmarksRef)
     IN  /\ lastGesture' = IF GestureChanged(new, lastGesture) THEN new ELSE lastGesture
         /\ tick' = [ran |-> TRUE, landmarks |-> latestLandmarksRef, last |-> lastGesture,
                     called |-> TickCalls(new, lastGesture),
                     passed |-> TickPasses(new, lastGesture)]
  /\ nTicks' = nTicks + 1
  /\ UNCHANGED << running, latestLandmarksRef, handPosition, lastFrame, sourceResults >>

\* the effect's cleanup
ViewCleanup ==
  /\ running
  /\ running' = FALSE
  /\ UNCHANGED << latestLandmarksRef, lastGesture, handPosition, tick, nTicks, lastFrame,
                  sourceResults >>

\* ------------------------------------------------------------------------
\* CameraView, the revision that stores mirrored landmarks
\* ------------------------------------------------------------------------
\* landmarks.map(pt => ({ ...pt, x: 1 - pt.x }))
MirrorLandmarks(hand) == [i \in 1..Len(hand) |-> Flip(hand[i])]

\* detectGesture of that revision: the palm's position is landmark 9
detectGestureMirrored(hand) ==
  LET result == ViewDetectGesture(hand)
  IN  IF result.type = "palm"
        THEN [result EXCEPT !.position = PointOf(Landmark(hand, 9))]
        ELSE result

\* hands.onResults of that revision
onResultsMirrored(results) ==
  /\ running
  /\ IF results # Null
       THEN /\ latestLandmarksRef' = MirrorLandmarks(results[1])
            /\ handPosition' = PinchPosition(MirrorLandmarks(results[1]))
       ELSE /\ latestLandmarksRef' = Null
            /\ handPosition' = Null
  /\ lastFrame' = "results"
  /\ sourceResults' = results
  /\ UNCHANGED << running, lastGesture, tick, nTicks >>

\* the gesture the timer of that revision classifies on a tick
TickGestureMirrored(latest, last) ==
  IF latest # Null THEN detectGestureMirrored(latest) ELSE last

\* setInterval callback of that revision
gestureIntervalMirrored ==
  /\ running
  /\ nTicks < MaxTicks
  /\ LET new == TickGestureMirrored(latestLandmarksRef, lastGesture)
     IN  /\ lastGesture' = IF GestureChanged(new, lastGesture) THEN new ELSE lastGesture
         /\ tick' = [ran |-> TRUE, landmarks |-> latestLandmarksRef, last |-> lastGesture,
                     called |-> TickCalls(new, lastGesture),
                     passed |-> TickPasses(new, lastGesture)]
  /\ nTicks' = nTicks + 1
  /\ UNCHANGED << running, latestLandmarksRef, handPosition, lastFrame, sourceResults >>

\* ------------------------------------------------------------------------
\* hooks/useCamera.ts, used by CameraView with its selectedDeviceId.
\* A getUserMedia call is numbered when it is issued; the stream it resolves
\* to carries the same number.
\* ------------------------------------------------------------------------
MaxCalls == 4        \* getUserMedia calls explored per behaviour

\* the cameras enumerateDevices lists; selectedDeviceId is undefined until one is chosen
DeviceIds == {"cam1", "cam2"}

VARIABLES
  mounted,        \* CameraView is mounted
  deviceId,       \* the deviceId argument of useCamera (CameraView's selectedDeviceId)
  streamRef,      \* streamRef.current: <<stream>> or Null
  pending,        \* getUserMedia calls not yet settled
  callDevice,     \* the device each call asked for (deviceIdRef.current when issued)
  live,           \* acquired streams with a track still running
  nCalls,         \* calls issued so far
  isLoading,      \* useCamera state
  error,          \* useCamera state: an error message is set
  srcObject,      \* the stream attached to the video element, <<stream>> or Null
  metadataDue,    \* the video element will fire loadedmetadata for srcObject
  cameraEvent     \* history: the last camera step, and nCalls and deviceId before it

cameraVars == << mounted, deviceId, streamRef, pending, callDevice, live, nCalls,
                 isLoading, error, srcObject, metadataDue, cameraEvent >>

CameraStep(kind) == [kind |-> kind, calls |-> nCalls, device |-> deviceId]

\* stop every track of streamRef.current and clear the ref
StopCurrent(ref, liveStreams) ==
  IF ref # Null THEN liveStreams \ {ref[1]} ELSE liveStreams

\* CameraView renders the video element only while error is null
VideoPresent == mounted /\ ~error

\* CameraView renders the error message instead
ErrorShown == mounted /\ error

\* state after the first render and its effects: startCamera has issued call 1
CameraInit ==
  /\ mounted = TRUE
  /\ deviceId = "undefined"
  /\ streamRef = Null
  /\ pending = {1}
  /\ callDevice = << "undefined" >>
  /\ live = {}
  /\ nCalls = 1
  /\ isLoading = TRUE
  /\ error = FALSE
  /\ srcObject = Null
  /\ metadataDue = FALSE
  /\ cameraEvent = [kind |-> "mount", calls |-> 0, device |-> "undefined"]

\* selectedDeviceId changes (default-camera effect or camera menu): the cleanup
\* of the previous effect runs, then the effect runs startCamera up to its await
SelectDevice(d) ==
  /\ mounted
  /\ d # deviceId
  /\ nCalls < MaxCalls
  /\ deviceId' = d
  /\ live' = StopCurrent(streamRef, live)
  /\ streamRef' = Null
  /\ isLoading' = TRUE
  /\ nCalls' = nCalls + 1
  /\ pending' = pending \cup {nCalls + 1}
  /\ callDevice' = Append(callDevice, d)
  /\ cameraEvent' = CameraStep("select")
  /\ UNCHANGED << mounted, error, srcObject, metadataDue >>

\* getUserMedia of call c resolves: the rest of startCamera's try block
GetUserMediaResolves(c) ==
  /\ c \in pending
  /\ pending' = pending \ {c}
  /\ live' = live \cup {c}
  /\ streamRef' = << c >>
  /\ IF VideoPresent
       THEN srcObject' = << c >> /\ metadataDue' = TRUE
       ELSE UNCHANGED << srcObject, metadataDue >>
  /\ cameraEvent' = CameraStep("resolve")
  /\ UNCHANGED << mounted, deviceId, callDevice, nCalls, isLoading, error >>

\* a catch block that leaves the loading flag set
GetUserMediaRejects_KeepsLoading(c) ==
  /\ c \in pending
  /\ pending' = pending \ {c}
  /\ IF mounted THEN error' = TRUE ELSE UNCHANGED error
  /\ cameraEvent' = CameraStep("reject")
  /\ UNCHANGED << mounted, deviceId, streamRef, callDevice, live, nCalls, srcObject,
                  metadataDue, isLoading >>

\* getUserMedia of call c rejects: the catch block (setState after unmount does nothing)
GetUserMediaRejects(c) ==
  /\ c \in pending
  /\ pending' = pending \ {c}
  /\ IF mounted
       THEN error' = TRUE /\ isLoading' = FALSE
       ELSE UNCHANGED << error, isLoading >>
  /\ cameraEvent' = CameraStep("reject")
  /\ UNCHANGED << mounted, deviceId, streamRef, callDevice, live, nCalls, srcObject,
                  metadataDue >>

\* videoRef.current.onloadedmetadata
LoadedMetadata ==
  /\ VideoPresent
  /\ metadataDue
  /\ metadataDue' = FALSE
  /\ isLoading' = FALSE
  /\ error' = FALSE
  /\ cameraEvent' = CameraStep("loadedmetadata")
  /\ UNCHANGED << mounted, deviceId, streamRef, pending, callDevice, live, nCalls, srcObject >>

\* CameraView unmounts: the effect's cleanup
Unmount ==
  /\ mounted
  /\ mounted' = FALSE
  /\ live' = StopCurrent(streamRef, live)
  /\ streamRef' = Null
  /\ cameraEvent' = CameraStep("unmount")
  /\ UNCHANGED << deviceId, pending, callDevice, nCalls, isLoading, error, srcObject,
                  metadataDue >>

\* ------------------------------------------------------------------------
\* utils/simpleGestureDetection.ts : SimpleGestureDetector (gestures from the
\* brightness and motion of video frames), and CameraView's
\* mapVisualGestureToAppGesture
\* ------------------------------------------------------------------------
MaxFrames == 8       \* detectGesture calls explored per behaviour

CentreOfFrame == Point(R(1, 2), R(1, 2))

\* determineGesture(regions, motionScore); detectMotion never returns NaN
determineGesture(regions, motionScore) ==
  LET centerBrightness == regions.center.brightness
      scaled           == RMul(motionScore, RInt(100))
  IN  IF RGt(motionScore, R(2, 10000)) /\ RGt(centerBrightness, RInt(15))
        THEN IF RGt(centerBrightness, RInt(25))
               THEN Gesture("palm", RMin(R(8, 10), scaled), CentreOfFrame, Null)
               ELSE Gesture("pinch", RMin(R(7, 10), scaled), CentreOfFrame, Null)
      ELSE IF RGt(motionScore, R(1, 10000))
        THEN Gesture("pinch", RMin(R(5, 10), scaled), CentreOfFrame, Null)
      ELSE NoneGesture

\* const requiredDetections = gesture.confidence > 0.3 ? 2 : 3
requiredDetections(result) == IF RGt(result.confidence, R(3, 10)) THEN 2 ELSE 3

requiredNoDetections == 5

\* type of mapVisualGestureToAppGesture's result
VisualType(name) ==
  CASE name \in {"pinch", "point"} -> "pinch"
    [] name \in {"palm", "open"}   -> "palm"
    [] name = "zoom"               -> "zoom"
    [] name \in {"fist", "closed"} -> "fist"
    [] OTHER                       -> "none"

\* mapVisualGestureToAppGesture(gesture); score: a number, or Null for undefined
mapVisualGestureToAppGesture(visual) ==
  Gesture(VisualType(visual.name), IF Truthy(visual.score) THEN visual.score ELSE RInt(1),
          CentreOfFrame, Null)

VARIABLES
  isInitialized,      \* SimpleGestureDetector
  hasPreviousFrame,   \* SimpleGestureDetector: previousFrame # null
  gestureCounter,     \* SimpleGestureDetector
  noGestureCounter,   \* SimpleGestureDetector
  currentGesture,     \* SimpleGestureDetector
  analysed,           \* history: <<newGesture>> of the last call, Null if it analysed no frame
  streak,             \* history: consecutive calls up to now that detected analysed's type
  returned,           \* history: what the last detectGesture call returned
  returnedBefore,     \* history: what the call before it returned
  nFrames,            \* history: number of detectGesture calls so far
  sample,             \* the inputs of the pure functions: a frame and a visual gesture
  produced,           \* whether the pure functions have been applied to sample
  determined,         \* determineGesture(sample.frame)
  mapped              \* mapVisualGestureToAppGesture(sample.visual)

detectorVars == << isInitialized, hasPreviousFrame, gestureCounter, noGestureCounter,
                   currentGesture, analysed, streak, returned, returnedBefore, nFrames,
                   sample, produced, determined, mapped >>

\* what analyzeRegions and detectMotion make of a frame
Frame(brightness, motion) == [regions |-> [center |-> [brightness |-> brightness]],
                              motion |-> motion]

Frames == {Frame(b, m) : b \in {RInt(20), RInt(30)},
                         m \in {RInt(0), R(15, 100000), R(1, 100)}}

VisualNames == {"pinch", "point", "open", "zoom", "closed", "wave"}
VisualScores == {Null, RInt(0), R(1, 2), RInt(1), R(17, 2)}
VisualGestures == [name : VisualNames, score : VisualScores]

IdleSample == [frame |-> Frame(RInt(20), RInt(0)), visual |-> [name |-> "wave", score |-> Null]]

\* the detector after construction; the pure functions not applied
DetectorInit ==
  /\ isInitialized = FALSE
  /\ hasPreviousFrame = FALSE
  /\ gestureCounter = 0
  /\ noGestureCounter = 0
  /\ currentGesture = NoneGesture
  /\ analysed = Null
  /\ streak = 0
  /\ returned = NoneGesture
  /\ returnedBefore = NoneGesture
  /\ nFrames = 0
  /\ sample = IdleSample
  /\ produced = FALSE
  /\ determined = NoneGesture
  /\ mapped = NoneGesture

initialize ==
  /\ ~isInitialized
  /\ isInitialized' = TRUE
  /\ UNCHANGED << hasPreviousFrame, gestureCounter, noGestureCounter, currentGesture,
                  analysed, streak, returned, returnedBefore, nFrames,
                  sample, produced, determined, mapped >>

\* detectGesture(video) on a frame that can be read: analyzeFrame with
\* determineGesture and updateGestureState, then previousFrame = currentFrame
SimpleDetectGesture(frame) ==
  /\ nFrames < MaxFrames
  /\ nFrames' = nFrames + 1
  /\ returnedBefore' = returned
  /\ IF ~isInitialized
       THEN /\ returned' = NoneGesture
            /\ analysed' = Null
            /\ streak' = 0
            /\ UNCHANGED << hasPreviousFrame, gestureCounter, noGestureCounter,
                            currentGesture >>
       ELSE LET motionScore == IF hasPreviousFrame THEN frame.motion ELSE RInt(0)
                newGesture  == determineGesture(frame.regions, motionScore)
                counted     == gestureCounter + 1
                uncounted   == noGestureCounter + 1
            IN  /\ IF newGesture.type # "none"
                     THEN /\ noGestureCounter' = 0
                          /\ IF counted >= requiredDetections(newGesture)
                               THEN /\ currentGesture' = newGesture
                                    /\ gestureCounter' = requiredDetections(newGesture)
                               ELSE /\ gestureCounter' = counted
                                    /\ UNCHANGED currentGesture
                     ELSE /\ gestureCounter' = 0
                          /\ IF uncounted >= requiredNoDetections
                               THEN /\ currentGesture' = newGesture
                                    /\ noGestureCounter' = requiredNoDetections
                               ELSE /\ noGestureCounter' = uncounted
                                    /\ UNCHANGED currentGesture
                /\ returned' = currentGesture'
                /\ hasPreviousFrame' = TRUE
                /\ analysed' = << newGesture >>
                /\ streak' = IF analysed # Null /\ analysed[1].type = newGesture.type
                               THEN streak + 1 ELSE 1
  /\ UNCHANGED << isInitialized, sample, produced, determined, mapped >>

\* detectGesture(video) when reading the frame throws: the catch returns none
SimpleDetectGestureThrows ==
  /\ nFrames < MaxFrames
  /\ isInitialized
  /\ nFrames' = nFrames + 1
  /\ returnedBefore' = returned
  /\ returned' = NoneGesture
  /\ analysed' = Null
  /\ streak' = 0
  /\ UNCHANGED << isInitialized, hasPreviousFrame, gestureCounter, noGestureCounter,
                  currentGesture, sample, produced, determined, mapped >>

dispose ==
  /\ isInitialized
  /\ isInitialized' = FALSE
  /\ hasPreviousFrame' = FALSE
  /\ gestureCounter' = 0
  /\ noGestureCounter' = 0
  /\ UNCHANGED << currentGesture, analysed, streak, returned, returnedBefore, nFrames,
                  sample, produced, determined, mapped >>

\* the pure functions applied to the sample drawn
ProduceGestures ==
  /\ ~produced
  /\ produced' = TRUE
  /\ determined' = determineGesture(sample.frame.regions, sample.frame.motion)
  /\ mapped' = mapVisualGestureToAppGesture(sample.visual)
  /\ UNCHANGED << isInitialized, hasPreviousFrame, gestureCounter, noGestureCounter,
                  currentGesture, analysed, streak, returned, returnedBefore, nFrames,
                  sample >>

\* ------------------------------------------------------------------------
\* components/DrawingCanvas : the view transform of redrawCanvas, and the
\* conversion of App.screenToCanvas it undoes
\* ------------------------------------------------------------------------
\* a renderer that scales before it translates
viewTransform_ScaleFirst(state, p) ==
  Point(RMul(RAdd(p.x, state.offset.x), state.scale),
        RMul(RAdd(p.y, state.offset.y), state.scale))

\* ctx.translate(offset.x, offset.y); ctx.scale(scale, scale): where the canvas
\* draws the path point p
viewTransform(state, p) ==
  Point(RAdd(RMul(p.x, state.scale), state.offset.x),
        RAdd(RMul(p.y, state.scale), state.offset.y))

VARIABLES
  view,          \* the offset and scale both conversions are given
  screenPoint,   \* a normalized screen point
  redrawn        \* <<canvas point, pixel it is drawn at>>, Null before the conversions

canvasVars == << view, screenPoint, redrawn >>

ViewOffsets == {Point(RInt(0), RInt(0)), Point(RInt(30), RInt(-20)),
                Point(R(1, 3), RInt(7)), Point(RInt(-120), R(5, 2))}
ViewScales == {MIN_SCALE, R(3, 7), RInt(1), R(5, 2), MAX_SCALE}
ScreenPoints == {P0, P1, Point(R(1, 3), R(2, 3)), Point(RInt(1), RInt(1))}

Views == {[InitialDrawingState EXCEPT !.offset = o, !.scale = k] :
            o \in ViewOffsets, k \in ViewScales}

CanvasIdle ==
  /\ view = InitialDrawingState
  /\ screenPoint = P0
  /\ redrawn = Null

CanvasInit ==
  /\ view \in Views
  /\ screenPoint \in ScreenPoints
  /\ redrawn = Null

\* screenToCanvas, then the renderer's transform of the point it returned
ConvertAndRedraw ==
  /\ redrawn = Null
  /\ LET canvasPoint == screenToCanvas(Captured(view), screenPoint)
     IN  redrawn' = << canvasPoint, viewTransform(view, canvasPoint) >>
  /\ UNCHANGED << view, screenPoint >>

\* ------------------------------------------------------------------------
\* App, the revision that finishes a stroke through a timeout.  It keeps its
\* state in the variables of App; the timeout is gestureTimeoutRef.
\* ------------------------------------------------------------------------
MaxPaths == 2        \* committed strokes explored before a new stroke is started
CanvasEvents == 3    \* handler invocations explored from a canvas with committed strokes

TICK_MS      == 33   \* period of CameraView's gesture timer
FINISH_DELAY == 100  \* delay of the finishing timeout

VARIABLES
  gestureTimeoutRef,   \* <<ms left>> of the pending timeout, Null when none is pending
  delivered            \* history: type of the gesture delivered last ("init" before any)

delayedVars == << gestureTimeoutRef, delivered >>

DelayedInit ==
  /\ gestureTimeoutRef = Null
  /\ delivered = "init"

\* screenPoint
ScreenPoint(result) ==
  Point(RMul(result.position.x, RInt(innerWidth)), RMul(result.position.y, RInt(innerHeight)))

\* the drawing branch: only the pinch updaters run at once
DelayedDrawingBranch(prev, c, result) ==
  IF PinchAccepted(result)
    THEN IF ~c.isDrawing
           THEN [prev EXCEPT !.isDrawing = TRUE,
                             !.currentPath = << screenToCanvas(c, result.position) >>]
           ELSE [prev EXCEPT !.currentPath =
                               Append(prev.currentPath, screenToCanvas(c, result.position))]
    ELSE prev

\* whether the call sets the finishing timeout
SetsFinishTimeout(c, result) ==
  ~PinchAccepted(result) /\ c.isDrawing /\ result.type # "pinch"

DelayedPanningBranch(prev, c, result, panStart) ==
  IF PalmAccepted(result)
    THEN IF ~c.isPanning
           THEN [prev EXCEPT !.isPanning = TRUE]
           ELSE IF panStart # Null
                  THEN [prev EXCEPT
                          !.offset = Point(RAdd(prev.offset.x,
                                                RSub(ScreenPoint(result).x, panStart[1].x)),
                                           RAdd(prev.offset.y,
                                                RSub(ScreenPoint(result).y, panStart[1].y)))]
                  ELSE prev
    ELSE IF c.isPanning /\ result.type # "palm"
           THEN [prev EXCEPT !.isPanning = FALSE]
           ELSE prev

DelayedPanStartAfter(c, result, panStart) ==
  IF PalmAccepted(result)
    THEN IF ~c.isPanning \/ panStart # Null THEN << ScreenPoint(result) >> ELSE panStart
    ELSE IF c.isPanning /\ result.type # "palm" THEN Null ELSE panStart

DelayedEraseBranch(prev, c, result) ==
  IF FistAccepted(result)
    THEN [prev EXCEPT !.isErasing = IF ~c.isErasing THEN TRUE ELSE prev.isErasing,
                      !.paths = ErasePaths(prev.paths, screenToCanvas(c, result.position),
                                           EraseRadius(c))]
    ELSE IF c.isErasing /\ result.type # "fist"
           THEN [prev EXCEPT !.isErasing = FALSE]
           ELSE prev

\* handleGestureDetected of that revision, called by a tick of the gesture timer
\* TICK_MS after the call before: a timeout with no more than TICK_MS left has
\* fired by then
DelayedHandleGesture(result) ==
  /\ IF gestureTimeoutRef = Null THEN TRUE ELSE gestureTimeoutRef[1] > TICK_MS
  /\ PinchAccepted(result) =>
       /\ Len(drawingState.currentPath) < MaxPts
       /\ Len(drawingState.paths) < MaxPaths
  /\ drawingState' =
       DelayedEraseBranch(
         ZoomBranch(
           DelayedPanningBranch(
             DelayedDrawingBranch(drawingState, closureState, result),
             closureState, result, panStartRef),
           closureState, result, lastZoomDistanceRef),
         closureState, result)
  /\ gestureTimeoutRef' =
       IF SetsFinishTimeout(closureState, result) THEN << FINISH_DELAY >> ELSE Null
  /\ panStartRef' = DelayedPanStartAfter(closureState, result, panStartRef)
  /\ lastZoomDistanceRef' = LastZoomDistanceAfter(closureState, result, lastZoomDistanceRef)
  /\ lastGestureTypeRef' = result.type
  /\ delivered' = result.type
  /\ UNCHANGED << closureState, lastDrawPositionRef, positionHistoryRef, event, pre, session,
                  emitted, nEvents >>

\* the timeout's callback, once no call has cleared the timeout for FINISH_DELAY
FinishTimeout ==
  /\ gestureTimeoutRef # Null
  /\ drawingState' = FinishPath(drawingState)
  /\ gestureTimeoutRef' = Null
  /\ UNCHANGED << closureState, lastZoomDistanceRef, panStartRef, lastGestureTypeRef,
                  lastDrawPositionRef, positionHistoryRef, event, pre, session, emitted,
                  nEvents, delivered >>

\* handleHandPositionUpdate of that revision
DelayedHandPositionUpdate(position) ==
  /\ lastGestureTypeRef = "pinch"
  /\ position # Null
  /\ Len(drawingState.currentPath) < MaxPts
  /\ Len(drawingState.paths) < MaxPaths
  /\ LET canvasPoint == screenToCanvas(closureState, Flip(position[1]))
     IN  drawingState' =
           IF Appends_NoCap(drawingState, canvasPoint)
             THEN [drawingState EXCEPT !.isDrawing = TRUE,
                                       !.currentPath = Append(drawingState.currentPath,
                                                              canvasPoint)]
             ELSE drawingState
  /\ UNCHANGED << closureState, lastZoomDistanceRef, panStartRef, lastGestureTypeRef,
                  lastDrawPositionRef, positionHistoryRef, event, pre, session, emitted,
                  nEvents, gestureTimeoutRef, delivered >>

\* ------------------------------------------------------------------------
\* Specifications
\* ------------------------------------------------------------------------
vars == << appVars, classifierVars, viewVars, cameraVars, detectorVars, canvasVars,
           delayedVars >>

ClassifierIdle ==
  /\ landmarks = MakeHand([thumb |-> 0, index |-> FALSE, middle |-> FALSE, ring |-> FALSE,
                           pinky |-> FALSE, shift |-> 0])
  /\ classified = FALSE
  /\ gesture = NoneGesture
  /\ viewGesture = NoneGesture
  /\ tfGesture = NoneGesture

\* the reducer of App.tsx under every order of its handlers and re-renders
Init == AppInit /\ ClassifierIdle /\ ViewInit /\ CameraInit /\ DetectorInit /\ CanvasIdle /\ DelayedInit

Next ==
  \/ DeliverGesture /\ UNCHANGED << classifierVars, viewVars, cameraVars, detectorVars, canvasVars, delayedVars >>
  \/ DeliverHandPosition /\ UNCHANGED << classifierVars, viewVars, cameraVars, detectorVars, canvasVars, delayedVars >>
  \/ handleClearCanvas /\ UNCHANGED << classifierVars, viewVars, cameraVars, detectorVars, canvasVars, delayedVars >>
  \/ handleResetView /\ UNCHANGED << classifierVars, viewVars, cameraVars, detectorVars, canvasVars, delayedVars >>
  \/ Render /\ UNCHANGED << classifierVars, viewVars, cameraVars, detectorVars, canvasVars, delayedVars >>

Spec == Init /\ [][Next]_vars

\* the classifiers applied to every hand explored
ClassifierSpecInit ==
  AppInit /\ ClassifierInit /\ ViewInit /\ CameraInit /\ DetectorInit /\ CanvasIdle /\ DelayedInit

ClassifierNext == Classify /\ UNCHANGED << appVars, viewVars, cameraVars, detectorVars, canvasVars, delayedVars >>

SpecClassifier == ClassifierSpecInit /\ [][ClassifierNext]_vars

\* CameraView's landmark callback and gesture timer
DeliverResults ==
  \E results \in {Null} \cup {<< hand >> : hand \in ViewHands} : onResults(results)

ViewNext ==
  \/ DeliverResults /\ UNCHANGED << appVars, classifierVars, cameraVars, detectorVars, canvasVars, delayedVars >>
  \/ gestureInterval /\ UNCHANGED << appVars, classifierVars, cameraVars, detectorVars, canvasVars, delayedVars >>
  \/ ViewCleanup /\ UNCHANGED << appVars, classifierVars, cameraVars, detectorVars, canvasVars, delayedVars >>

SpecView == Init /\ [][ViewNext]_vars

\* CameraView feeding App: a frame's onResults calls onHandPositionUpdate with
\* the position it emits, a timer tick calls onGestureDetected with the gesture
\* it passes, and React re-renders App in between or later
FrameToApp(results) ==
  /\ onResults(results)
  /\ handleHandPositionUpdate(IF results # Null THEN PinchPosition(results[1]) ELSE Null)

\* the hands the pipeline is fed: a pinch, a point pose and a palm, each translated
PipelineHands ==
  {MakeHand(pose) : pose \in UNION {{Pose(0, FALSE, FALSE, FALSE, FALSE, s),
                                      Pose(MaxPinchGap, TRUE, FALSE, FALSE, FALSE, s),
                                      Pose(-1, TRUE, TRUE, TRUE, TRUE, s)} : s \in 0..MaxShift}}

DeliverFrame == \E results \in {Null} \cup {<< h >> : h \in PipelineHands} : FrameToApp(results)

TickToApp ==
  /\ gestureInterval
  /\ handleGestureDetected(TickPasses(TickGesture(latestLandmarksRef), lastGesture))

PipelineNext ==
  \/ DeliverFrame /\ UNCHANGED << classifierVars, cameraVars, detectorVars, canvasVars, delayedVars >>
  \/ TickToApp /\ UNCHANGED << classifierVars, cameraVars, detectorVars, canvasVars, delayedVars >>
  \/ Render /\ UNCHANGED << classifierVars, viewVars, cameraVars, detectorVars, canvasVars, delayedVars >>

SpecPipeline == Init /\ [][PipelineNext]_vars

\* The revision of CameraView that stores mirrored landmarks, feeding App
MirroredFrameToApp(results) ==
  /\ onResultsMirrored(results)
  /\ handleHandPositionUpdate(IF results # Null
                                THEN PinchPosition(MirrorLandmarks(results[1])) ELSE Null)

DeliverMirroredFrame ==
  \E results \in {Null} \cup {<< h >> : h \in PipelineHands} : MirroredFrameToApp(results)

MirroredTickToApp ==
  /\ gestureIntervalMirrored
  /\ handleGestureDetected(TickPasses(TickGestureMirrored(latestLandmarksRef, lastGesture),
                                      lastGesture))

MirroredNext ==
  \/ DeliverMirroredFrame /\ UNCHANGED << classifierVars, cameraVars, detectorVars, canvasVars, delayedVars >>
  \/ MirroredTickToApp /\ UNCHANGED << classifierVars, cameraVars, detectorVars, canvasVars, delayedVars >>
  \/ Render /\ UNCHANGED << classifierVars, viewVars, cameraVars, detectorVars, canvasVars, delayedVars >>

SpecMirrored == Init /\ [][MirroredNext]_vars

\* CameraView when the landmark source may also fail on a frame
DeliverFrameResults ==
  \E results \in {Null} \cup {<< hand >> : hand \in PipelineHands} : onResults(results)

FramesNext ==
  \/ DeliverFrameResults /\ UNCHANGED << appVars, classifierVars, cameraVars, detectorVars, canvasVars, delayedVars >>
  \/ sendFails /\ UNCHANGED << appVars, classifierVars, cameraVars, detectorVars, canvasVars, delayedVars >>
  \/ gestureInterval /\ UNCHANGED << appVars, classifierVars, cameraVars, detectorVars, canvasVars, delayedVars >>
  \/ ViewCleanup /\ UNCHANGED << appVars, classifierVars, cameraVars, detectorVars, canvasVars, delayedVars >>

SpecFrames == Init /\ [][FramesNext]_vars

\* The reducer under a pinch that is held or released while the hand moves by
\* steps around the minimum-distance threshold, or is lost for a frame
Q1 == Point(R(1, 200), RInt(0))
Q2 == Point(R(1, 50), RInt(0))
StrokePositions == {Null} \cup {<< p >> : p \in {P0, Q1, Q2}}
StrokeGestures == {Gesture("pinch", R(7, 10), P0, Null), Gesture("palm", R(8, 10), P0, Null)}

DeliverStrokeGesture == \E result \in StrokeGestures : handleGestureDetected(result)
DeliverStrokePosition == \E position \in StrokePositions : handleHandPositionUpdate(position)

StrokeNext ==
  \/ DeliverStrokeGesture /\ UNCHANGED << classifierVars, viewVars, cameraVars, detectorVars, canvasVars, delayedVars >>
  \/ DeliverStrokePosition /\ UNCHANGED << classifierVars, viewVars, cameraVars, detectorVars, canvasVars, delayedVars >>
  \/ Render /\ UNCHANGED << classifierVars, viewVars, cameraVars, detectorVars, canvasVars, delayedVars >>

SpecStroke == Init /\ [][StrokeNext]_vars

\* The reducer late in a long stroke: a pinch has been held while the hand swept
\* the frame row by row in steps of 0.02 towards the corner (0, 0), and the
\* stroke is at most MaxPts - 1 points short of MAX_PATH_POINTS
RasterColumns == 50
RasterPosition(i) ==
  Point(R((MAX_PATH_POINTS - i) % RasterColumns, RasterColumns),
        R((MAX_PATH_POINTS - i) \div RasterColumns, RasterColumns))
RasterPath(n) ==
  [i \in 1..n |-> screenToCanvas(Captured(InitialDrawingState), Flip(RasterPosition(i)))]
LongStroke(n) ==
  [InitialDrawingState EXCEPT !.isDrawing = TRUE, !.currentPath = RasterPath(n)]

CapInit ==
  \E n \in (MAX_PATH_POINTS - MaxPts + 1)..MAX_PATH_POINTS :
    /\ drawingState = LongStroke(n)
    /\ closureState = Captured(LongStroke(n))
    /\ lastZoomDistanceRef = Null
    /\ panStartRef = Null
    /\ lastGestureTypeRef = "pinch"
    /\ lastDrawPositionRef = << RasterPosition(n) >>
    /\ positionHistoryRef = << RasterPosition(n), RasterPosition(n), RasterPosition(n) >>
    /\ event = NoEvent
    /\ pre = Before(LongStroke(n), Captured(LongStroke(n)), Null, Null, "pinch")
    /\ session = RasterPath(n)
    /\ emitted = [i \in 1..n |-> RasterPosition(i)]
    /\ nEvents = 0

DeliverCapPosition == \E position \in {<< P0 >>, << P1 >>} : handleHandPositionUpdate(position)

CapNext ==
  \/ DeliverStrokeGesture /\ UNCHANGED << classifierVars, viewVars, cameraVars, detectorVars, canvasVars, delayedVars >>
  \/ DeliverCapPosition /\ UNCHANGED << classifierVars, viewVars, cameraVars, detectorVars, canvasVars, delayedVars >>
  \/ Render /\ UNCHANGED << classifierVars, viewVars, cameraVars, detectorVars, canvasVars, delayedVars >>

CapSpecInit ==
  CapInit /\ ClassifierIdle /\ ViewInit /\ CameraInit /\ DetectorInit /\ CanvasIdle
    /\ DelayedInit

SpecCap == CapSpecInit /\ [][CapNext]_vars

\* useCamera under every order of device changes, settlements and teardown
ChangeDevice == \E d \in DeviceIds : SelectDevice(d)
Resolve == \E c \in pending : GetUserMediaResolves(c)
Reject == \E c \in pending : GetUserMediaRejects(c)

CameraNext ==
  \/ ChangeDevice /\ UNCHANGED << appVars, classifierVars, viewVars, detectorVars, canvasVars, delayedVars >>
  \/ Resolve /\ UNCHANGED << appVars, classifierVars, viewVars, detectorVars, canvasVars, delayedVars >>
  \/ Reject /\ UNCHANGED << appVars, classifierVars, viewVars, detectorVars, canvasVars, delayedVars >>
  \/ LoadedMetadata /\ UNCHANGED << appVars, classifierVars, viewVars, detectorVars, canvasVars, delayedVars >>
  \/ Unmount /\ UNCHANGED << appVars, classifierVars, viewVars, detectorVars, canvasVars, delayedVars >>

SpecCamera == Init /\ [][CameraNext]_vars

\* useCamera with a video element that fires loadedmetadata for a stream
\* attached to it
LoadedMetadataStep ==
  LoadedMetadata
    /\ UNCHANGED << appVars, classifierVars, viewVars, detectorVars, canvasVars, delayedVars >>

SpecCameraLive == Init /\ [][CameraNext]_vars /\ WF_vars(LoadedMetadataStep)

\* every classifier and detector as a pure function of its input
SourcesInit ==
  /\ AppInit /\ ViewInit /\ CameraInit /\ CanvasIdle /\ DelayedInit
  /\ landmarks \in ViewHands
  /\ classified = FALSE
  /\ gesture = NoneGesture
  /\ viewGesture = NoneGesture
  /\ tfGesture = NoneGesture
  /\ isInitialized = FALSE
  /\ hasPreviousFrame = FALSE
  /\ gestureCounter = 0
  /\ noGestureCounter = 0
  /\ currentGesture = NoneGesture
  /\ analysed = Null
  /\ streak = 0
  /\ returned = NoneGesture
  /\ returnedBefore = NoneGesture
  /\ nFrames = 0
  /\ sample \in [frame : Frames, visual : VisualGestures]
  /\ produced = FALSE
  /\ determined = NoneGesture
  /\ mapped = NoneGesture

SourcesNext ==
  \/ Classify /\ UNCHANGED << appVars, viewVars, cameraVars, detectorVars, canvasVars, delayedVars >>
  \/ ProduceGestures /\ UNCHANGED << appVars, classifierVars, viewVars, cameraVars, canvasVars, delayedVars >>

SpecSources == SourcesInit /\ [][SourcesNext]_vars

\* SimpleGestureDetector under every order of its methods and frames
AnalyseFrame == \E frame \in Frames : SimpleDetectGesture(frame)

DetectorNext ==
  \/ initialize /\ UNCHANGED << appVars, classifierVars, viewVars, cameraVars, canvasVars, delayedVars >>
  \/ AnalyseFrame /\ UNCHANGED << appVars, classifierVars, viewVars, cameraVars, canvasVars, delayedVars >>
  \/ SimpleDetectGestureThrows /\ UNCHANGED << appVars, classifierVars, viewVars, cameraVars, canvasVars, delayedVars >>
  \/ dispose /\ UNCHANGED << appVars, classifierVars, viewVars, cameraVars, canvasVars, delayedVars >>

SpecDetector == Init /\ [][DetectorNext]_vars

\* the reducer of App.tsx started on a canvas that holds committed strokes: one
\* under the fist at P0, one under the fist at P1, one out of reach of both
CommittedStrokes ==
  { << Point(RInt(200), RInt(0)), Point(RInt(200), RInt(10)) >>,
    << Point(RInt(150), RInt(50)), Point(RInt(150), RInt(60)) >>,
    << Point(RInt(0), RInt(150)), Point(RInt(10), RInt(150)) >> }

\* the strokes in every order, none twice
CommittedCanvases ==
  { canvas \in UNION {[1..n -> CommittedStrokes] : n \in 0..3} :
      \A i, j \in 1..Len(canvas) : i # j => canvas[i] # canvas[j] }

CommittedState(canvas) == [InitialDrawingState EXCEPT !.paths = canvas]

CommittedInit ==
  \E canvas \in CommittedCanvases :
    /\ drawingState = CommittedState(canvas)
    /\ closureState = Captured(CommittedState(canvas))
    /\ lastZoomDistanceRef = Null
    /\ panStartRef = Null
    /\ lastGestureTypeRef = "none"
    /\ lastDrawPositionRef = Null
    /\ positionHistoryRef = << >>
    /\ event = NoEvent
    /\ pre = Before(CommittedState(canvas), Captured(CommittedState(canvas)), Null, Null, "none")
    /\ session = << >>
    /\ emitted = << >>
    /\ nEvents = MaxEvents - CanvasEvents

CommittedSpecInit ==
  CommittedInit /\ ClassifierIdle /\ ViewInit /\ CameraInit /\ DetectorInit /\ CanvasIdle
    /\ DelayedInit

SpecCommitted == CommittedSpecInit /\ [][Next]_vars

\* The revision of App with the finishing timeout, called by the gesture timer on
\* every tick; the timer may pause, and then a pending timeout fires.  The timer
\* keeps ticking while CameraView is mounted and React re-renders after an update.
DelayedGestures ==
  {Gesture("pinch", R(7, 10), P0, Null), Gesture("pinch", R(1, 2), P0, Null), Gesture("palm", R(8, 10), P0, Null), NoneGesture}

TickDelivers == \E result \in DelayedGestures : DelayedHandleGesture(result)
DeliverDelayedPosition == \E position \in HandPositions : DelayedHandPositionUpdate(position)

TickDeliversStep ==
  TickDelivers
    /\ UNCHANGED << classifierVars, viewVars, cameraVars, detectorVars, canvasVars >>
RenderStep ==
  Render
    /\ UNCHANGED << classifierVars, viewVars, cameraVars, detectorVars, canvasVars, delayedVars >>

DelayedNext ==
  \/ TickDeliversStep
  \/ DeliverDelayedPosition
       /\ UNCHANGED << classifierVars, viewVars, cameraVars, detectorVars, canvasVars >>
  \/ FinishTimeout
       /\ UNCHANGED << classifierVars, viewVars, cameraVars, detectorVars, canvasVars >>
  \/ RenderStep

SpecDelayedFinish ==
  Init /\ [][DelayedNext]_vars /\ WF_vars(TickDeliversStep) /\ WF_vars(RenderStep)

\* screenToCanvas and the renderer's transform on every view and point explored
TransformInit ==
  AppInit /\ ClassifierIdle /\ ViewInit /\ CameraInit /\ DetectorInit /\ CanvasInit /\ DelayedInit

TransformNext ==
  ConvertAndRedraw
    /\ UNCHANGED << appVars, classifierVars, viewVars, cameraVars, detectorVars, delayedVars >>

SpecTransform == TransformInit /\ [][TransformNext]_vars

\* ------------------------------------------------------------------------
\* Claims about the reducer (App.tsx), checked under Spec
\* ------------------------------------------------------------------------
GestureEvent == event.kind = "gesture"
HandEvent    == event.kind = "hand"

\* the last handler was a zoom step: it multiplied the scale by a distance ratio
ZoomStep ==
  /\ GestureEvent
  /\ ZoomAccepted(event.gesture)
  /\ pre.closure.isZooming
  /\ Truthy(pre.lastZoomDistance)

\* the product the zoom step computed before clamping
RawScale == RMul(pre.closure.scale, RDiv(event.gesture.distance, pre.lastZoomDistance))

SessionEnd ==
  /\ GestureEvent
  /\ event.gesture.type # "pinch"
  /\ pre.state.isDrawing

\* C2 (as claimed): the first non-pinch gesture of a drawing session leaves
\* currentPath empty; a session of one point adds no entry to paths, a session
\* of two or more points adds exactly one entry, at the end, equal to the points
\* appended in order.
C2_StrokeLifecycle ==
  SessionEnd =>
    /\ drawingState.currentPath = << >>
    /\ Len(session) = 1 => Len(drawingState.paths) <= Len(pre.state.paths)
    /\ Len(session) >= 2 =>
         /\ Len(drawingState.paths) >= 1
         /\ Len(drawingState.paths) <= Len(pre.state.paths) + 1
         /\ drawingState.paths[Len(drawingState.paths)] = session

\* C3 (as claimed): isDrawing goes from false to true only on a delivered pinch
\* whose confidence is above 0.6.
C3_DrawingEntryOnlyByPinch ==
  (~pre.state.isDrawing /\ drawingState.isDrawing) =>
    (GestureEvent /\ PinchAccepted(event.gesture))

\* C4 (as claimed): a hand-position update extends currentPath only when
\* isDrawing was already true.
C4_AppendOnlyWhileDrawing ==
  (HandEvent /\ Len(drawingState.currentPath) > Len(pre.state.currentPath)) =>
    pre.state.isDrawing

\* channel flag of a drawing state, by triggering gesture type
ChannelActive(state, type) ==
  CASE type = "pinch" -> state.isDrawing
    [] type = "palm"  -> state.isPanning
    [] type = "zoom"  -> state.isZooming
    [] type = "fist"  -> state.isErasing

TriggerTypes == {"pinch", "palm", "zoom", "fist"}

\* C8 (as claimed): a channel that is active stays active over every handler
\* except a delivered gesture of another type than its trigger, and on such a
\* gesture it becomes inactive at once.
C8_ExitExactlyOnTypeChange ==
  \A type \in TriggerTypes :
    ChannelActive(pre.state, type) =>
      (ChannelActive(drawingState, type) <=>
         ~(GestureEvent /\ event.gesture.type # type))

\* C9 (as claimed): a fist above 0.8 removes each completed path with a point
\* nearer than 50/scale to the fist's mirrored canvas position and keeps each
\* path whose points are all farther than 50/scale, scale and offset being
\* those of the current drawing state.
C9_EraseCorrectness ==
  (GestureEvent /\ FistAccepted(event.gesture)) =>
    LET centre == screenToCanvas(pre.state, Flip(event.gesture.position))
        radius == RDiv(ERASE_RADIUS, pre.state.scale)
        kept(path) == \E i \in 1..Len(drawingState.paths) : drawingState.paths[i] = path
    IN  \A k \in 1..Len(pre.state.paths) :
          LET path == pre.state.paths[k]
          IN  /\ PathHit(path, centre, radius) => ~kept(path)
              /\ (\A i \in 1..Len(path) :
                    RLt(RMul(radius, radius), Dist2(path[i], centre))) => kept(path)

\* a delivered palm above 0.7
PalmEvent == GestureEvent /\ PalmAccepted(event.gesture)

\* C14 (as claimed): a palm above 0.7 delivered while the panning channel is
\* active adds to offset the difference between its mirrored screen position
\* and the last-observed one and stores its position; the palm that activates
\* panning leaves offset unchanged and records its position; when the channel
\* exits the last-observed position is cleared.
C14_PanStep ==
  /\ (PalmEvent /\ pre.state.isPanning) =>
       /\ pre.panStart # Null
       /\ drawingState.offset =
            Point(RAdd(pre.state.offset.x,
                       RSub(FlippedScreenPoint(event.gesture).x, pre.panStart[1].x)),
                  RAdd(pre.state.offset.y,
                       RSub(FlippedScreenPoint(event.gesture).y, pre.panStart[1].y)))
       /\ panStartRef = << FlippedScreenPoint(event.gesture) >>
  /\ (PalmEvent /\ ~pre.state.isPanning) =>
       /\ drawingState.isPanning
       /\ drawingState.offset = pre.state.offset
       /\ panStartRef = << FlippedScreenPoint(event.gesture) >>
  /\ (GestureEvent /\ pre.state.isPanning /\ ~drawingState.isPanning) => panStartRef = Null

\* a delivered zoom above 0.7 with a distance
ZoomEvent == GestureEvent /\ ZoomAccepted(event.gesture)

\* C15 (as claimed): a zoom gesture above 0.7 with a distance d, delivered
\* while the zooming channel is active, sets scale to
\* clamp(scale * d / dLast, 0.1, 5) with the scale of the current drawing state
\* and stores d; the zoom gesture that activates zooming leaves scale
\* unchanged and records d as the baseline.
C15_ZoomStep ==
  /\ (ZoomEvent /\ pre.state.isZooming) =>
       /\ Truthy(pre.lastZoomDistance)
       /\ drawingState.scale =
            RMax(MIN_SCALE,
                 RMin(MAX_SCALE,
                      RMul(pre.state.scale,
                           RDiv(event.gesture.distance, pre.lastZoomDistance))))
       /\ lastZoomDistanceRef = event.gesture.distance
  /\ (ZoomEvent /\ ~pre.state.isZooming) =>
       /\ drawingState.isZooming
       /\ drawingState.scale = pre.state.scale
       /\ lastZoomDistanceRef = event.gesture.distance

\* the fields a command must leave alone
Flags(state) == << state.isDrawing, state.isPanning, state.isZooming, state.isErasing >>

\* C16: 'reset view' sets scale to 1 and offset to (0,0), leaves paths,
\* currentPath and the four channel flags unchanged, and a second reset right
\* after it changes nothing.
C16_ResetView ==
  event.kind = "reset" =>
    /\ drawingState.scale = RInt(1)
    /\ drawingState.offset = Point(RInt(0), RInt(0))
    /\ drawingState.paths = pre.state.paths
    /\ drawingState.currentPath = pre.state.currentPath
    /\ Flags(drawingState) = Flags(pre.state)
    /\ ResetView(drawingState) = drawingState

\* a reset that found a zoomed and panned view
C16_Witness ==
  /\ event.kind = "reset"
  /\ pre.state.scale # RInt(1)
  /\ pre.state.offset # Point(RInt(0), RInt(0))
  /\ drawingState.scale = RInt(1)
  /\ drawingState.offset = Point(RInt(0), RInt(0))

\* C17: 'clear canvas' empties paths and currentPath and leaves scale, offset
\* and the four channel flags unchanged, also while a stroke is in progress.
C17_ClearCanvas ==
  event.kind = "clear" =>
    /\ drawingState.paths = << >>
    /\ drawingState.currentPath = << >>
    /\ drawingState.scale = pre.state.scale
    /\ drawingState.offset = pre.state.offset
    /\ Flags(drawingState) = Flags(pre.state)

\* a clear that found a stroke in progress
C17_Witness ==
  /\ event.kind = "clear"
  /\ pre.state.isDrawing
  /\ pre.state.currentPath # << >>
  /\ drawingState.isDrawing
  /\ drawingState.currentPath = << >>

\* ------------------------------------------------------------------------
\* The gesture timer (SpecView)
\* ------------------------------------------------------------------------
\* the classification of the landmark set the last tick sampled
TickClassified == TickGesture(tick.landmarks)

\* C5 (as claimed): a tick that finds a landmark set passes the classification
\* of that landmark set to onGestureDetected, position and distance included,
\* also when the type is unchanged and the confidence moved by at most 0.1.
C5_TickPassesFreshClassification ==
  (tick.ran /\ tick.landmarks # Null) => tick.passed = TickClassified

\* C6 (as claimed): a tick invokes onGestureDetected exactly when the new
\* classification differs from the last propagated gesture in type or by more
\* than 0.1 in confidence; every other tick invokes nothing.
C6_CallbackOnlyOnChange ==
  tick.ran => ((tick.called > 0) <=> GestureChanged(TickClassified, tick.last))

\* C6 (amended): every tick of a running timer invokes onGestureDetected once;
\* the new classification becomes the propagated gesture and is passed only
\* when it differs in type or by more than 0.1 in confidence, and on every
\* other tick the last propagated gesture is passed again.
C6_CallbackEveryTick ==
  tick.ran =>
    /\ tick.called = 1
    /\ tick.passed = lastGesture
    /\ IF GestureChanged(TickClassified, tick.last)
         THEN lastGesture = TickClassified
         ELSE lastGesture = tick.last

\* a tick with an unchanged type and confidence but a moved hand: the callback
\* ran and received the gesture propagated earlier
C6_Witness ==
  /\ tick.ran
  /\ tick.landmarks # Null
  /\ ~GestureChanged(TickClassified, tick.last)
  /\ TickClassified # tick.last
  /\ tick.called = 1
  /\ tick.passed = tick.last

\* ------------------------------------------------------------------------
\* The camera stream (SpecCamera)
\* ------------------------------------------------------------------------
\* C7 (as claimed): once every getUserMedia call has settled, no stream is live
\* after the view was torn down, and a live stream is the one streamRef holds
\* and was requested for the selected deviceId.
C7_StreamsReleased ==
  pending = {} =>
    /\ ~mounted => live = {}
    /\ \A s \in live : streamRef = << s >> /\ callDevice[s] = deviceId

\* ------------------------------------------------------------------------
\* The classifiers (SpecClassifier)
\* ------------------------------------------------------------------------
FistOf(hand) == Gesture("fist", R(9, 10), PointOf(Landmark(hand, 9)), Null)

ClosedHand == classified /\ Len(landmarks) = LANDMARK_COUNT /\ getExtendedFingerCount(landmarks) = 0

\* the thumb tip and the index tip are less than limit apart
ThumbIndexWithin(hand, limit) ==
  RLt(calculateDistance(getFingerTip(hand, 0), getFingerTip(hand, 1)), limit)

\* C10 (as claimed): a 21-landmark hand with zero fingers extended is classified
\* fist, confidence 0.9, positioned at landmark 9, whatever the distance between
\* the thumb tip and the index tip.
C10_ClosedHandAlwaysFist ==
  ClosedHand => gesture = FistOf(landmarks) /\ viewGesture = FistOf(landmarks)

\* C10 (amended): a 21-landmark hand with zero fingers extended is classified
\* fist, confidence 0.9, positioned at landmark 9, when the thumb tip is not
\* within the pinch threshold of the index tip (0.04 in gestureDetection.ts,
\* 0.06 in CameraView); within the threshold the pinch rule wins.
C10_ClosedHandFistUnlessPinched ==
  ClosedHand =>
    /\ IF ThumbIndexWithin(landmarks, R(4, 100))
         THEN gesture.type = "pinch"
         ELSE gesture = FistOf(landmarks)
    /\ IF ThumbIndexWithin(landmarks, R(6, 100))
         THEN viewGesture.type = "pinch"
         ELSE viewGesture = FistOf(landmarks)

\* a closed hand both classifiers call a fist, and one they both call a pinch
C10_Witness ==
  /\ ClosedHand
  /\ ~ThumbIndexWithin(landmarks, R(6, 100))
  /\ gesture.type = "fist"
  /\ viewGesture.type = "fist"

\* the type the fixed rule order pinch, zoom, fist, palm, point, none gives a
\* 21-landmark hand, for a pinch rule with the given distance limit
FirstMatchType(hand, limit) ==
  IF ThumbIndexWithin(hand, limit) /\ getExtendedFingerCount(hand) <= 1 THEN "pinch"
  ELSE IF ZoomPose(hand) THEN "zoom"
  ELSE IF getExtendedFingerCount(hand) = 0 THEN "fist"
  ELSE IF getExtendedFingerCount(hand) >= 4 THEN "palm"
  ELSE IF getExtendedFingerCount(hand) = 1 /\ isFingerExtended(hand, 1) THEN "pinch"
  ELSE "none"

\* result is what the first matching rule returns: its type, the pinch midpoint
\* or the index tip telling the pinch rule from the point rule, confidence 0 for none
FirstMatch(hand, result, limit) ==
  /\ result.type = FirstMatchType(hand, limit)
  /\ result.type = "pinch" =>
       IF ThumbIndexWithin(hand, limit)
         THEN result.position = Midpoint(getFingerTip(hand, 0), getFingerTip(hand, 1))
         ELSE result.position = PointOf(getFingerTip(hand, 1))
  /\ result.type = "zoom" => result.distance # Null
  /\ result.type = "none" => result.confidence = RInt(0)

\* C11: for every 21-landmark hand each classifier returns the result of the
\* first rule that matches in the order pinch, zoom, fist, palm, point, none;
\* a hand that matches the pinch rule is a pinch even if it is also a fist.
C11_FirstMatchWins ==
  (classified /\ Len(landmarks) = LANDMARK_COUNT) =>
    /\ FirstMatch(landmarks, gesture, R(4, 100))
    /\ FirstMatch(landmarks, viewGesture, R(6, 100))
    /\ FirstMatch(landmarks, tfGesture, R(5, 100))

\* a closed hand with the thumb tip on the index tip: pinch and fist rule both
\* match and all three classifiers answer pinch
C11_Witness ==
  /\ ClosedHand
  /\ ThumbIndexWithin(landmarks, R(4, 100))
  /\ gesture.type = "pinch"
  /\ viewGesture.type = "pinch"
  /\ tfGesture.type = "pinch"

\* C12 (as claimed): each of the three classifiers returns none with
\* confidence 0 for every landmark sequence whose length is not 21, shorter
\* or longer.
C12_WrongLengthIsNone ==
  (classified /\ Len(landmarks) # LANDMARK_COUNT) =>
    \A result \in {gesture, viewGesture, tfGesture} :
      result.type = "none" /\ result.confidence = RInt(0)

\* ------------------------------------------------------------------------
\* CameraView feeding App (SpecPipeline)
\* ------------------------------------------------------------------------
\* only the index finger extended, thumb tip not near the index tip
PointPose(hand) ==
  /\ Len(hand) = LANDMARK_COUNT
  /\ getExtendedFingerCount(hand) = 1
  /\ isFingerExtended(hand, 1)
  /\ ~ThumbIndexWithin(hand, R(6, 100))

\* the last timer tick classified a point pose, and the last handler was the
\* hand-position update of a later frame that still shows a point pose and
\* found the drawing channel active after the delivered pinch
PointPoseFrameWhileDrawing ==
  /\ tick.ran
  /\ PointPose(tick.landmarks)
  /\ HandEvent
  /\ PointPose(latestLandmarksRef)
  /\ pre.state.isDrawing
  /\ pre.lastGestureType = "pinch"

\* C13 (as claimed): a point pose is classified pinch at the index tip, and a
\* frame that shows the point pose while the drawing channel is active leaves
\* a stroke point in currentPath.
C13_PointPoseDraws ==
  /\ (tick.ran /\ PointPose(tick.landmarks)) =>
       /\ TickClassified.type = "pinch"
       /\ TickClassified.position = PointOf(getFingerTip(tick.landmarks, 1))
  /\ PointPoseFrameWhileDrawing => drawingState.currentPath # << >>

\* ------------------------------------------------------------------------
\* Camera acquisition failure (SpecCamera)
\* ------------------------------------------------------------------------
\* C18: when getUserMedia rejects in a mounted view, error is set and
\* isLoading is false, CameraView renders the error message in place of the
\* video, and after the first call at mount a new getUserMedia call is issued
\* only by a step that changes the selected device id.
C18_FailureShownNoRetry ==
  /\ (cameraEvent.kind = "reject" /\ mounted) =>
       /\ error
       /\ ~isLoading
       /\ ErrorShown
       /\ ~VideoPresent
  /\ (cameraEvent.kind # "mount" /\ nCalls > cameraEvent.calls) =>
       /\ cameraEvent.kind = "select"
       /\ deviceId # cameraEvent.device

\* a rejection in a mounted view after which nothing was requested again
C18_Witness ==
  /\ cameraEvent.kind = "reject"
  /\ mounted
  /\ error
  /\ ~isLoading
  /\ pending = {}
  /\ nCalls = cameraEvent.calls

\* ------------------------------------------------------------------------
\* A frame the landmark source fails on (SpecFrames)
\* ------------------------------------------------------------------------
\* C19 (as claimed): a frame on which hands.send rejects counts as a frame
\* without a hand: once the last frame has failed the stored landmark set is
\* cleared, so the next timer tick has no landmarks of an earlier frame to
\* classify.
C19_FailedFrameClearsLandmarks ==
  lastFrame = "failed" => latestLandmarksRef = Null

\* ------------------------------------------------------------------------
\* The minimum-movement threshold (SpecStroke)
\* ------------------------------------------------------------------------
\* C20 (as claimed): within one drawing session any two consecutively emitted
\* smoothed positions are more than MIN_DISTANCE_THRESHOLD apart.
C20_MinimumMovement ==
  \A i \in 1..(Len(emitted) - 1) :
    RLt(RMul(MIN_DISTANCE_THRESHOLD, MIN_DISTANCE_THRESHOLD),
        Dist2(emitted[i], emitted[i + 1]))

\* ------------------------------------------------------------------------
\* The cap on the stroke in progress (SpecCap)
\* ------------------------------------------------------------------------
\* C21: currentPath never holds more than MAX_PATH_POINTS points, and a hand
\* position update that finds MAX_PATH_POINTS points in currentPath leaves
\* drawingState as it was.
C21_PathCapped ==
  /\ Len(drawingState.currentPath) <= MAX_PATH_POINTS
  /\ (event.kind = "hand" /\ Len(pre.state.currentPath) = MAX_PATH_POINTS)
       => drawingState = pre.state

\* a pinch is held, the stroke is full, and a position far enough from the last
\* emitted one arrives
C21_Witness ==
  /\ event.kind = "hand"
  /\ event.position # Null
  /\ pre.lastGestureType = "pinch"
  /\ Len(pre.state.currentPath) = MAX_PATH_POINTS
  /\ positionHistoryRef # << >>
  /\ lastDrawPositionRef # Null
  /\ ~TooClose(Smoothed(positionHistoryRef), lastDrawPositionRef)

\* ------------------------------------------------------------------------
\* Confidence of every gesture produced (SpecSources)
\* ------------------------------------------------------------------------
InUnitInterval(r) == RLe(RInt(0), r) /\ RLe(r, RInt(1))

\* C22 (as claimed): every gesture a classifier or detector produces, from
\* landmarks, from a video frame or from a visual gesture, has a confidence
\* within [0, 1].
C22_ConfidenceInUnitInterval ==
  /\ classified =>
       /\ InUnitInterval(gesture.confidence)
       /\ InUnitInterval(viewGesture.confidence)
       /\ InUnitInterval(tfGesture.confidence)
  /\ produced =>
       /\ InUnitInterval(determined.confidence)
       /\ InUnitInterval(mapped.confidence)

\* ------------------------------------------------------------------------
\* Hysteresis of SimpleGestureDetector (SpecDetector)
\* ------------------------------------------------------------------------
ReportChanged == nFrames > 0 /\ returned # returnedBefore

\* C26 (as claimed): the reported gesture changes to a gesture other than none
\* only when that gesture has been detected on requiredDetections consecutive
\* frames, and changes to none only after requiredNoDetections consecutive
\* frames without a gesture; otherwise the previous report is returned again.
C26_Hysteresis ==
  ReportChanged =>
    /\ analysed # Null
    /\ analysed[1].type = returned.type
    /\ returned.type # "none" =>
         /\ returned = analysed[1]
         /\ streak >= requiredDetections(returned)
    /\ returned.type = "none" => streak >= requiredNoDetections

\* ------------------------------------------------------------------------
\* Mirroring (SpecMirrored)
\* ------------------------------------------------------------------------
\* the pinch point of the hand the landmark source delivered last
SourcePinchPoint ==
  Midpoint(getFingerTip(sourceResults[1], 0), getFingerTip(sourceResults[1], 1))

\* a hand position update that drew the first point of a fresh position history
DrewUnsmoothedPoint ==
  /\ event.kind = "hand"
  /\ event.position # Null
  /\ Len(positionHistoryRef) = 1
  /\ Len(drawingState.currentPath) > Len(pre.state.currentPath)

\* C23 (as claimed): the classifier is given the landmarks as the source
\* delivered them, the position handed to the reducer is unmirrored, and a
\* drawn point is the source's pinch point with x replaced by 1 - x once.
C23_MirroredOnce ==
  /\ latestLandmarksRef # Null => latestLandmarksRef = sourceResults[1]
  /\ handPosition # Null => handPosition[1] = SourcePinchPoint
  /\ DrewUnsmoothedPoint =>
       drawingState.currentPath[Len(drawingState.currentPath)]
         = screenToCanvas(pre.closure, Flip(SourcePinchPoint))

\* ------------------------------------------------------------------------
\* Coordinate round trip (SpecTransform)
\* ------------------------------------------------------------------------
\* C24: for every offset, scale and screen point, the point screenToCanvas
\* returns is drawn by the renderer at the pixel the screen point names.
C24_RoundTrip ==
  redrawn # Null =>
    redrawn[2] = Point(RMul(screenPoint.x, RInt(innerWidth)),
                       RMul(screenPoint.y, RInt(innerHeight)))

\* a converted point under a view that moves and scales it
C24_Witness ==
  /\ redrawn # Null
  /\ view.scale # RInt(1)
  /\ view.offset # Point(RInt(0), RInt(0))
  /\ redrawn[1] # redrawn[2]

\* ------------------------------------------------------------------------
\* The delayed finish of a stroke (SpecDelayedFinish)
\* ------------------------------------------------------------------------
NonPinchWhileDrawing == delivered \notin {"init", "pinch"} /\ drawingState.isDrawing

\* C25 (as claimed): after a gesture other than a pinch is delivered while
\* drawing, the drawing channel becomes inactive (the stroke committed or
\* discarded) unless a pinch is delivered first, also while the timer keeps
\* delivering gestures every TICK_MS; and a delivered pinch leaves no finish
\* pending.
C25_FinishEventually ==
  /\ NonPinchWhileDrawing ~> (~drawingState.isDrawing \/ delivered = "pinch")
  /\ [](delivered = "pinch" => gestureTimeoutRef = Null)

\* ------------------------------------------------------------------------
\* The four channels together (Spec)
\* ------------------------------------------------------------------------
ActiveChannels(state) ==
  {ch \in {"isDrawing", "isPanning", "isZooming", "isErasing"} : state[ch]}

\* C27 (as claimed): in every reachable state at most one of isDrawing,
\* isPanning, isZooming and isErasing is true, whatever the order of delivered
\* gestures, hand-position updates and re-renders.
C27_OneChannelAtATime == Cardinality(ActiveChannels(drawingState)) <= 1

\* ------------------------------------------------------------------------
\* The committed strokes (SpecCommitted)
\* ------------------------------------------------------------------------
\* short is long with some of its entries left out, the others in their order
RECURSIVE IsSubSeq(_, _)
IsSubSeq(short, long) ==
  IF short = << >> THEN TRUE
  ELSE IF long = << >> THEN FALSE
  ELSE IF Head(short) = Head(long)
         THEN IsSubSeq(Tail(short), Tail(long)) \/ IsSubSeq(short, Tail(long))
         ELSE IsSubSeq(short, Tail(long))

\* a delivered fist above 0.8
FistEvent == GestureEvent /\ FistAccepted(event.gesture)

\* C28: every entry of paths has at least 2 points; currentPath is non-empty
\* only while isDrawing is true; an erase and 'clear canvas' only remove whole
\* entries: what is left of paths are entries of the paths before (with the
\* stroke the same call committed, if any), unaltered and in their order.
C28_PathsWellFormed ==
  /\ \A i \in 1..Len(drawingState.paths) : Len(drawingState.paths[i]) >= 2
  /\ drawingState.currentPath # << >> => drawingState.isDrawing
  /\ FistEvent =>
       \/ IsSubSeq(drawingState.paths, pre.state.paths)
       \/ IsSubSeq(drawingState.paths, Append(pre.state.paths, pre.state.currentPath))
  /\ event.kind = "clear" => IsSubSeq(drawingState.paths, pre.state.paths)

\* a fist that removed the middle one of three committed strokes
C28_Witness ==
  /\ FistEvent
  /\ Len(pre.state.paths) = 3
  /\ drawingState.paths = << pre.state.paths[1], pre.state.paths[3] >>

\* ------------------------------------------------------------------------
\* A frame without hands (SpecPipeline)
\* ------------------------------------------------------------------------
\* the last step of the pipeline was a tick that found the landmarks cleared
\* by a frame without hands
NoHandsTick ==
  /\ GestureEvent
  /\ tick.ran
  /\ lastFrame = "results"
  /\ sourceResults = Null
  /\ tick.landmarks = Null

\* the tick before delivered none as well: the pipeline's hands are never
\* classified none, so that tick found no landmarks either
SecondNoHandsTick == NoHandsTick /\ pre.lastGestureType = "none"

\* C29 (as claimed): the tick that follows a frame without hands delivers a
\* gesture of type none with confidence 0; after that delivery and at most one
\* further tick all four channels are inactive and the stroke in progress has
\* been committed or discarded.
C29_NoHandsEndsChannels ==
  /\ NoHandsTick =>
       /\ event.gesture.type = "none"
       /\ event.gesture.confidence = RInt(0)
  /\ SecondNoHandsTick =>
       /\ ActiveChannels(drawingState) = {}
       /\ drawingState.currentPath = << >>

\* ------------------------------------------------------------------------
\* Recovery from a failed acquisition (SpecCameraLive)
\* ------------------------------------------------------------------------
\* the call issued last, by a device change, has resolved in a mounted view
\* that reports the failure of an earlier call
SucceededAfterFailure ==
  /\ cameraEvent.kind = "resolve"
  /\ mounted
  /\ error
  /\ streamRef = << nCalls >>

\* the view was unmounted, the device changed again or another call failed
Superseded == cameraEvent.kind \in {"unmount", "select", "reject"}

\* C30 (as claimed): when an acquisition fails and a later one, after a change
\* of the device id, succeeds, error becomes null and isLoading false
\* eventually (unless the view unmounts, the device changes again or another
\* call fails first); and useCamera never holds a live stream, just acquired,
\* while it still reports the error of an earlier acquisition.
C30_RecoversAfterFailure ==
  /\ SucceededAfterFailure ~> (Superseded \/ (~error /\ ~isLoading))
  /\ [](~(/\ cameraEvent.kind = "resolve"
           /\ mounted /\ error
           /\ streamRef # Null /\ streamRef[1] \in live))

====
